---- MODULE Spec2Model ----
(***************************************************************************)
(* Resethiq integrity engine: the evidence kernel of the CLI               *)
(* (hash / attest / verify), its Merkle engine and its verifier.           *)
(*                                                                         *)
(* Hash functions are modelled as collision-free: a digest is the term     *)
(* [k |-> algorithm, v |-> input], so two digests are equal exactly when   *)
(* algorithm and input are equal.  A byte buffer is a tagged record too:   *)
(* raw bytes, the concatenation of two digests, or the UTF-8 bytes of a    *)
(* JSON text.  Strings that encode a value (hex, base64, PEM) carry the    *)
(* encoded value and the spelling that was used.                           *)
(***************************************************************************)
EXTENDS Integers, Sequences, FiniteSets, TLC

VARIABLES
    file,      \* content of the artifact at filePath
    keyDir,    \* the key directory: ed25519_public.pem / ed25519_private.pem
    outFile,   \* content of <out>/attestation.json
    att,       \* locals of a running `attest` command
    ver,       \* locals of a running `verify` command
    runs,      \* history: what the attest runs over the current artifact, chunk
               \* size and key pair returned and wrote, oldest first
    res,       \* history: what the last `verify` printed, until the next command
    mk,        \* a caller of the Merkle engine: leaves, proof, samples
    tam,       \* history: what was done to the bundle after attest wrote it
    tl,        \* <baseDir>/transparency.log and the calls appending to it
    ks,        \* the calls of loadOrCreateEd25519Keypair in flight
    pl         \* a pipeline run (runAllEngines): its step and its receipts

vars == <<file, keyDir, outFile, att, ver, runs, res, mk, tam, tl, ks, pl>>

(***************************************************************************)
(* Bounds                                                                  *)
(***************************************************************************)
MaxLen == 3        \* longest artifact, in bytes
MaxChunk == 2      \* largest --chunk value
MaxRead == 3       \* largest 'data' event, in bytes
MaxRuns == 2       \* attest runs over the same inputs
MaxLeaves == 4     \* longest free-form leaf list handed to the Merkle engine
MaxSample == 100   \* longest patterned leaf list handed to the sampler
MaxProcs == 2      \* concurrent callers of the log and of the key store
MaxAppends == 3    \* appendTransparencyLog calls in one behaviour
MaxRows == 2       \* most rows of the input CSV of a pipeline run
MaxCpus == 2       \* most processors os.cpus() reports to a pipeline run
MaxWritten == 1    \* most tokens of the bundle on disk when a write is cut short
MaxWidth == 2      \* most members of an object or array handed to hashJSON

Byte == {0, 1}
None == [k |-> "none"]

Min(a, b) == IF a < b THEN a ELSE b
Max(a, b) == IF a > b THEN a ELSE b

RECURSIVE SeqsUpTo(_, _)
SeqsUpTo(S, n) ==
    IF n = 0 THEN {<<>>}
    ELSE LET shorter == SeqsUpTo(S, n - 1)
         IN  shorter \cup {Append(s, b) : s \in {t \in shorter : Len(t) = n - 1}, b \in S}

Files == SeqsUpTo(Byte, MaxLen)

(***************************************************************************)
(* Buffers, digests and hex strings                                        *)
(***************************************************************************)
Raw(bytes) == [k |-> "raw", v |-> bytes]

\* Buffer.concat([left, right]) of two fixed-width digests
Concat(left, right) == [k |-> "cat", v |-> <<left, right>>]

\* crypto.createHash("blake2b512").update(data).digest()
h(data) == [k |-> "blake2b512", v |-> data]

\* crypto.createHash("blake2b512").update(chunk).digest("hex") is ToHex(h(..))
\* digest.toString("hex"): always the lowercase spelling
ToHex(d) == [k |-> "hex", v |-> d, enc |-> "lc"]

\* the same bytes spelled with uppercase hex digits
UpperHex(d) == [k |-> "hex", v |-> d, enc |-> "uc"]

\* Buffer.from(x, "hex"): hex digits are read case-insensitively
FromHex(x) == x.v

\* Buffer.from("resethiq:empty"): the UTF-8 bytes of the label
EmptyLabel == Raw(<<114, 101, 115, 101, 116, 104, 105, 113, 58,
                    101, 109, 112, 116, 121>>)

leafHash(chunk) == ToHex(h(Raw(chunk)))

(***************************************************************************)
(* Merkle engine (core/merkle.ts)                                          *)
(***************************************************************************)
\* level[i + 1] ?? level[i] for the 0-based i: the last node of an odd level
\* is paired with itself
RightOf(level, i) ==
    IF i + 1 < Len(level) THEN level[i + 2] ELSE level[i + 1]

\* for (i = 0; i < level.length; i += 2) next.push(h(concat(left, right)))
RECURSIVE PairUp(_, _, _)
PairUp(level, i, next) ==
    IF i < Len(level)
    THEN PairUp(level, i + 2, Append(next, h(Concat(level[i + 1], RightOf(level, i)))))
    ELSE next

NextLevel(level) == PairUp(level, 0, <<>>)

RECURSIVE ReduceLevels(_)
ReduceLevels(level) ==
    IF Len(level) > 1 THEN ReduceLevels(NextLevel(level)) ELSE level

DecodeLeaves(leafHex) == [j \in 1..Len(leafHex) |-> FromHex(leafHex[j])]

merkleRootFromLeafHex(leafHex) ==
    IF Len(leafHex) = 0
    THEN [root_hex |-> ToHex(h(EmptyLabel)), leaf_count |-> 0]
    ELSE [root_hex |-> ToHex(ReduceLevels(DecodeLeaves(leafHex))[1]),
          leaf_count |-> Len(leafHex)]

RECURSIVE LevelsFrom(_)
LevelsFrom(level) ==
    IF Len(level) > 1 THEN <<level>> \o LevelsFrom(NextLevel(level)) ELSE <<level>>

buildLevels(leafHex) ==
    IF Len(leafHex) = 0 THEN << <<h(EmptyLabel)>> >>
    ELSE LevelsFrom(DecodeLeaves(leafHex))

\* the loop of merkleProof from level lv (1-based) with 0-based node index idx
RECURSIVE SiblingsFrom(_, _, _)
SiblingsFrom(levels, lv, idx) ==
    IF lv > Len(levels) - 1 THEN <<>>
    ELSE LET nodes == levels[lv]
             isRight == idx % 2 = 1
             pairIdx == IF isRight THEN idx - 1 ELSE idx + 1
             sibling == IF pairIdx >= 0 /\ pairIdx < Len(nodes)
                        THEN nodes[pairIdx + 1] ELSE nodes[idx + 1]
         IN  <<ToHex(sibling)>> \o SiblingsFrom(levels, lv + 1, idx \div 2)

\* the test for the empty tree is left out
merkleProofNoEmpty(leafHex, index) ==
    IF index < 0 \/ index >= Len(leafHex)
    THEN [error |-> "Proof index out of range"]
    ELSE [index |-> index,
          leaf_hex |-> leafHex[index + 1],
          siblings_hex |-> SiblingsFrom(buildLevels(leafHex), 1, index)]

merkleProof(leafHex, index) ==
    IF Len(leafHex) = 0 THEN [error |-> "Cannot build proof for empty tree"]
    ELSE IF index < 0 \/ index >= Len(leafHex)
    THEN [error |-> "Proof index out of range"]
    ELSE [index |-> index,
          leaf_hex |-> leafHex[index + 1],
          siblings_hex |-> SiblingsFrom(buildLevels(leafHex), 1, index)]

IsProof(p) == "index" \in DOMAIN p

\* the left-hand case pairs the node with itself instead of the sibling
RECURSIVE FoldProofDupLeft(_, _, _, _)
FoldProofDupLeft(node, idx, sibs, j) ==
    IF j > Len(sibs) THEN node
    ELSE LET sib == FromHex(sibs[j])
             isRight == idx % 2 = 1
         IN  FoldProofDupLeft(IF isRight THEN h(Concat(sib, node)) ELSE h(Concat(node, node)),
                              idx \div 2, sibs, j + 1)

\* the loop of verifyProof from sibling j (1-based)
RECURSIVE FoldProof(_, _, _, _)
FoldProof(node, idx, sibs, j) ==
    IF j > Len(sibs) THEN node
    ELSE LET sib == FromHex(sibs[j])
             isRight == idx % 2 = 1
         IN  FoldProof(IF isRight THEN h(Concat(sib, node)) ELSE h(Concat(node, sib)),
                       idx \div 2, sibs, j + 1)

\* orientation taken from the wrong end: every sibling is put on the right
verifyProofNoParity(rootHex, proof) ==
    LET RECURSIVE F(_, _)
        F(node, j) == IF j > Len(proof.siblings_hex) THEN node
                      ELSE F(h(Concat(node, FromHex(proof.siblings_hex[j]))), j + 1)
    IN  ToHex(F(FromHex(proof.leaf_hex), 1)) = rootHex

verifyProof(rootHex, proof) ==
    ToHex(FoldProof(FromHex(proof.leaf_hex), proof.index, proof.siblings_hex, 1)) = rootHex

(***************************************************************************)
(* JSON values and texts.  An object is the ordered list of its members    *)
(* (insertion order, as JavaScript keeps it); a text is a list of tokens.  *)
(***************************************************************************)
JStr(s) == [k |-> "str", v |-> s]
JNum(n) == [k |-> "num", v |-> n]
JBool(b) == [k |-> "bool", v |-> b]
JNull == [k |-> "null"]
Obj(members) == [k |-> "obj", v |-> members]
Arr(elements) == [k |-> "arr", v |-> elements]
Undefined == [k |-> "undefined"]

Punct(p) == [k |-> "punct", v |-> p]
KeyTok(name) == [k |-> "key", v |-> name]
Indent(depth) == [k |-> "ws", v |-> depth]

\* x[key]: the member's value, undefined when absent
Get(x, key) ==
    IF x.k # "obj" THEN Undefined
    ELSE IF \E j \in 1..Len(x.v) : x.v[j][1] = key
    THEN x.v[CHOOSE j \in 1..Len(x.v) : x.v[j][1] = key][2]
    ELSE Undefined

\* x ?? {}
OrEmpty(x) == IF x = Undefined THEN Obj(<<>>) ELSE x

\* typeof x === "string"
IsString(x) == x.k \in {"str", "hex", "b64", "pem", "uuid", "date"}

NaN == [k |-> "nan"]
Infinity == [k |-> "inf"]
NegInfinity == [k |-> "-inf"]

\* a member that refers back to the object it is in
Ref == [k |-> "ref"]

\* Number(x) for the values a bundle can hold at chunk_size
Number(x) ==
    IF x.k = "num" THEN x
    ELSE IF x.k = "str" /\ x.v \in {"0", "1", "2", "3", "4", "5", "6", "7", "8", "9"}
    THEN JNum(CHOOSE n \in 0..9 :
                <<"0", "1", "2", "3", "4", "5", "6", "7", "8", "9">>[n + 1] = x.v)
    ELSE NaN

\* x with the member at the path set to val (the path's objects exist)

RECURSIVE JoinWith(_, _)
JoinWith(parts, sep) ==
    IF Len(parts) = 0 THEN <<>>
    ELSE IF Len(parts) = 1 THEN parts[1]
    ELSE parts[1] \o sep \o JoinWith(Tail(parts), sep)

\* JSON.stringify(x): members in insertion order, no whitespace
RECURSIVE JSONstringify(_)
JSONstringify(x) ==
    IF x.k = "obj"
    THEN <<Punct("{")>>
         \o JoinWith([j \in 1..Len(x.v) |->
                        <<KeyTok(x.v[j][1]), Punct(":")>> \o JSONstringify(x.v[j][2])],
                     <<Punct(",")>>)
         \o <<Punct("}")>>
    ELSE IF x.k = "arr"
    THEN <<Punct("[")>>
         \o JoinWith([j \in 1..Len(x.v) |-> JSONstringify(x.v[j])], <<Punct(",")>>)
         \o <<Punct("]")>>
    ELSE <<x>>

\* JSON.stringify(x, null, 2): the same text with line breaks and indentation
RECURSIVE JSONstringifyIndent(_, _)
JSONstringifyIndent(x, depth) ==
    IF x.k = "obj" /\ Len(x.v) > 0
    THEN <<Punct("{"), Indent(depth + 1)>>
         \o JoinWith([j \in 1..Len(x.v) |->
                        <<KeyTok(x.v[j][1]), Punct(":"), Indent(0)>>
                        \o JSONstringifyIndent(x.v[j][2], depth + 1)],
                     <<Punct(","), Indent(depth + 1)>>)
         \o <<Indent(depth), Punct("}")>>
    ELSE IF x.k = "arr" /\ Len(x.v) > 0
    THEN <<Punct("["), Indent(depth + 1)>>
         \o JoinWith([j \in 1..Len(x.v) |-> JSONstringifyIndent(x.v[j], depth + 1)],
                     <<Punct(","), Indent(depth + 1)>>)
         \o <<Indent(depth), Punct("]")>>
    ELSE JSONstringify(x)

\* every key the kernel writes, in the order Array.prototype.sort() gives
\* (by UTF-16 code unit: "hasHeader" before "hash")
KeyOrder == <<"against_run_id", "algorithm", "arch", "artifacts",
              "blake2b_512", "bundle", "bundle_hash", "bytes",
              "canonicalization", "checkpoint", "chunk_index", "chunk_rows",
              "chunk_size", "claims", "compare_against_run_id", "compared",
              "cpus", "created_at", "dataset", "dataset_id", "dataset_risk",
              "delimiter", "delta", "description", "e2", "e2_chunk_index",
              "e2_chunk_index_hash_sha256", "e2_receipt_hash", "e3",
              "e3_manifest", "e3_verdict", "e4", "e4_contamination", "e5",
              "e5_policy", "e6", "e6_streaming", "e7", "e7_trust", "e8",
              "e8_proofs", "engine", "environment", "file_digest",
              "file_digests", "filename", "hasHeader", "hash",
              "heavyHittersK", "index", "index_digest", "input_bytes",
              "input_csv", "input_digest_sha256", "input_file", "inputs",
              "leaf_count", "leaf_hex", "leaves", "left", "manifest",
              "manifest_hash", "manifest_sha512", "maxScanRows", "merkle",
              "merkle_root", "name", "node", "outputs", "params",
              "platform", "pointers", "prev_receipt_hash", "proofs",
              "public_key_pem", "receipt_hash", "receipt_version",
              "receipts", "repetitionFlagRatio", "report", "right", "root",
              "rows", "run", "run_id", "sampleCount", "sampled", "schema",
              "score", "sha512", "siblings_hex", "signature",
              "signature_b64", "signed_message_sha512", "spec_id",
              "subject", "trust_score", "type", "verdict", "verdict_hash",
              "verifies", "version">>

\* the position of every key in that order
KeyRanks == [key \in {KeyOrder[j] : j \in 1..Len(KeyOrder)} |->
                CHOOSE j \in 1..Len(KeyOrder) : KeyOrder[j] = key]

KeyRank(key) == KeyRanks[key]

\* Object.keys(x).sort(): the members by ascending key
RECURSIVE SortedMembers(_)
SortedMembers(members) ==
    IF Len(members) = 0 THEN <<>>
    ELSE LET least == CHOOSE j \in 1..Len(members) :
                        \A m \in 1..Len(members) :
                            KeyRank(members[j][1]) <= KeyRank(members[m][1])
             rest == [m \in 1..(Len(members) - 1) |->
                        IF m < least THEN members[m] ELSE members[m + 1]]
         IN  <<members[least]>> \o SortedMembers(rest)

\* stableStringify (kernel/hashing.ts): canonical JSON
RECURSIVE stableStringify(_)
stableStringify(x) ==
    IF x.k = "arr"
    THEN <<Punct("[")>>
         \o JoinWith([j \in 1..Len(x.v) |-> stableStringify(x.v[j])], <<Punct(",")>>)
         \o <<Punct("]")>>
    ELSE IF x.k = "obj"
    THEN LET members == SortedMembers(x.v)
         IN  <<Punct("{")>>
             \o JoinWith([j \in 1..Len(members) |->
                            <<KeyTok(members[j][1]), Punct(":")>>
                            \o stableStringify(members[j][2])],
                         <<Punct(",")>>)
             \o <<Punct("}")>>
    ELSE IF x.k \in {"nan", "inf", "-inf"}
    THEN <<JNull>>
    ELSE <<x>>

\* how stableStringify(x) ends when it does not return: undefined reaches
\* Object.keys (TypeError), a cycle exhausts the stack (RangeError); the
\* first failure in the order of the traversal, "none" when there is none
RECURSIVE Failure(_)
RECURSIVE FirstFailure(_)
FirstFailure(values) ==
    IF Len(values) = 0 THEN "none"
    ELSE IF Failure(values[1]) # "none" THEN Failure(values[1])
    ELSE FirstFailure(Tail(values))

Failure(x) ==
    IF x = Undefined THEN "TypeError"
    ELSE IF x = Ref THEN "RangeError"
    ELSE IF x.k = "arr" THEN FirstFailure(x.v)
    ELSE IF x.k = "obj"
    THEN LET members == SortedMembers(x.v)
         IN  FirstFailure([j \in 1..Len(members) |-> members[j][2]])
    ELSE "none"

\* JSON.parse: whitespace is skipped, members keep the order of the text,
\* a repeated key keeps its first position and its last value
RECURSIVE SkipWs(_, _)
SkipWs(toks, i) ==
    IF i <= Len(toks) /\ toks[i].k = "ws" THEN SkipWs(toks, i + 1) ELSE i

SetMember(members, key, val) ==
    IF \E j \in 1..Len(members) : members[j][1] = key
    THEN [j \in 1..Len(members) |->
            IF members[j][1] = key THEN <<key, val>> ELSE members[j]]
    ELSE Append(members, <<key, val>>)

\* an editor of a parsed bundle: x with the member at the path set to val
RECURSIVE SetIn(_, _, _)
SetIn(x, path, val) ==
    IF Len(path) = 1 THEN Obj(SetMember(x.v, path[1], val))
    ELSE Obj(SetMember(x.v, path[1], SetIn(Get(x, path[1]), Tail(path), val)))

RECURSIVE ParseValue(_, _)
RECURSIVE ParseMembers(_, _, _)
RECURSIVE ParseElements(_, _, _)

ParseValue(toks, i) ==
    LET j == SkipWs(toks, i)
    IN  IF toks[j] = Punct("{") THEN ParseMembers(toks, SkipWs(toks, j + 1), <<>>)
        ELSE IF toks[j] = Punct("[") THEN ParseElements(toks, SkipWs(toks, j + 1), <<>>)
        ELSE [val |-> toks[j], next |-> j + 1]

ParseMembers(toks, i, acc) ==
    IF toks[i] = Punct("}") THEN [val |-> Obj(acc), next |-> i + 1]
    ELSE IF toks[i] = Punct(",") THEN ParseMembers(toks, SkipWs(toks, i + 1), acc)
    ELSE LET colon == SkipWs(toks, i + 1)
             r == ParseValue(toks, colon + 1)
         IN  ParseMembers(toks, SkipWs(toks, r.next), SetMember(acc, toks[i].v, r.val))

ParseElements(toks, i, acc) ==
    IF toks[i] = Punct("]") THEN [val |-> Arr(acc), next |-> i + 1]
    ELSE IF toks[i] = Punct(",") THEN ParseElements(toks, SkipWs(toks, i + 1), acc)
    ELSE LET r == ParseValue(toks, i)
         IN  ParseElements(toks, SkipWs(toks, r.next), Append(acc, r.val))

JSONparse(toks) == ParseValue(toks, 1).val

(***************************************************************************)
(* Signing (core/sign.ts)                                                  *)
(***************************************************************************)
\* Buffer.from(text) / hash.update(text): the UTF-8 bytes of a text
Utf8(toks) == [k |-> "utf8", v |-> toks]

sha512Hex(input) == ToHex([k |-> "sha512", v |-> input])

KeyIds == {1, 2}
\* crypto.generateKeyPairSync("ed25519"): a pair that is on no disk yet
FreshKeyId(dir) ==
    CHOOSE id \in KeyIds :
        /\ \A f \in {dir.pub, dir.priv} : f # None => f.v # id
        /\ \A other \in KeyIds :
              (\A f \in {dir.pub, dir.priv} : f # None => f.v # other) => id <= other
PublicPem(id) == [k |-> "pem", v |-> id, half |-> "public"]
PrivatePem(id) == [k |-> "pem", v |-> id, half |-> "private"]

\* buf.toString("base64"): the standard alphabet with padding
ToBase64(bytes) == [k |-> "b64", v |-> bytes, enc |-> "std"]

\* the same bytes in a spelling the decoder also accepts (no padding, the
\* URL alphabet, other unused low bits in the last character)
AltBase64(bytes) == [k |-> "b64", v |-> bytes, enc |-> "alt"]

\* Buffer.from(x, "base64"): lenient, every string decodes to some bytes
FromBase64(x) == IF x.k = "b64" THEN x.v ELSE [k |-> "junk", v |-> x]

\* the 64 bytes crypto.sign(null, message, key) returns; Ed25519 signatures
\* are deterministic and, here, unforgeable
Signature(keyId, message) == [k |-> "sig", key |-> keyId, msg |-> message]

signEd25519(privateKeyPem, message) ==
    ToBase64(Signature(privateKeyPem.v, message))

\* the message is not compared: any signature made with the key passes
verifyEd25519KeyOnly(publicKeyPem, message, signatureB64) ==
    /\ FromBase64(signatureB64).k = "sig"
    /\ FromBase64(signatureB64).key = publicKeyPem.v

\* crypto.verify(null, message, publicKeyPem, Buffer.from(signatureB64, "base64"))
\* for a key that parses
verifyEd25519(publicKeyPem, message, signatureB64) ==
    FromBase64(signatureB64) = Signature(publicKeyPem.v, message)

\* the pair loadOrCreateEd25519Keypair returns: both files when both can
\* be read, a fresh pair otherwise (AttestEnd writes it to the directory)
loadOrCreateEd25519Keypair(dir) ==
    IF dir.pub # None /\ dir.priv # None
    THEN [publicKeyPem |-> dir.pub, privateKeyPem |-> dir.priv]
    ELSE [publicKeyPem |-> PublicPem(FreshKeyId(dir)),
          privateKeyPem |-> PrivatePem(FreshKeyId(dir))]

(***************************************************************************)
(* Streaming fingerprinter (cli.ts, streamDigestsAndLeaves)                *)
(***************************************************************************)
\* an `if` in place of the `while`: one chunk is cut per 'data' event
DrainOnce(st, chunkSize) ==
    IF Len(st.buf) >= chunkSize
    THEN [buf |-> SubSeq(st.buf, chunkSize + 1, Len(st.buf)),
          leafHexes |-> Append(st.leafHexes, leafHash(SubSeq(st.buf, 1, chunkSize))),
          chunks |-> st.chunks + 1]
    ELSE st

\* while (buf.length >= chunkSize) { out = prefix; buf = rest; push; chunks++ }
RECURSIVE Drain(_, _)
Drain(st, chunkSize) ==
    IF Len(st.buf) >= chunkSize
    THEN Drain([buf |-> SubSeq(st.buf, chunkSize + 1, Len(st.buf)),
                leafHexes |-> Append(st.leafHexes, leafHash(SubSeq(st.buf, 1, chunkSize))),
                chunks |-> st.chunks + 1], chunkSize)
    ELSE st

\* the remainder is dropped at the end of the stream
FlushNoTail(st) == [st EXCEPT !.buf = <<>>]

\* the code after the stream has ended: the final short leaf

Flush(st) ==
    IF Len(st.buf) > 0
    THEN [buf |-> <<>>,
          leafHexes |-> Append(st.leafHexes, leafHash(st.buf)),
          chunks |-> st.chunks + 1]
    ELSE st

\* the value streamDigestsAndLeaves returns
CoreResult(st, bytes, fed, chunkSize) ==
    LET merkle == merkleRootFromLeafHex(st.leafHexes)
    IN  [bytes |-> bytes,
         chunks_count |-> st.chunks,
         leaf_hexes |-> st.leafHexes,
         file_digests |-> Obj(<< <<"blake2b_512", ToHex(h(Raw(fed)))>>,
                                 <<"sha512", sha512Hex(Raw(fed))>> >>),
         merkle |-> Obj(<< <<"algorithm", JStr("blake2b512")>>,
                           <<"root", merkle.root_hex>>,
                           <<"leaf_count", JNum(merkle.leaf_count)>>,
                           <<"chunk_size", JNum(chunkSize)>> >>)]

(***************************************************************************)
(* Attestation assembler (cli.ts, main, command attest)                    *)
(***************************************************************************)
\* new Set([...].filter(...)) in insertion order
RECURSIVE Dedup(_)
Dedup(s) ==
    IF Len(s) = 0 THEN <<>>
    ELSE LET front == Dedup(SubSeq(s, 1, Len(s) - 1))
             last == s[Len(s)]
         IN  IF \E j \in 1..Len(front) : front[j] = last THEN front
             ELSE Append(front, last)

Candidates(leafCount) ==
    <<0, leafCount \div 4, leafCount \div 2, (3 * leafCount) \div 4,
      Max(0, leafCount - 1)>>

\* the filter keeps i >= 0 only
sampleIndicesNoUpper(leafCount) ==
    Dedup(SelectSeq(Candidates(leafCount), LAMBDA i : i >= 0))

\* Array.from of the filtered list, without the Set
sampleIndicesNoDedup(leafCount) ==
    SelectSeq(Candidates(leafCount), LAMBDA i : i >= 0 /\ i < leafCount)

sampleIndices(leafCount) ==
    Dedup(SelectSeq(Candidates(leafCount), LAMBDA i : i >= 0 /\ i < leafCount))

SampledProof(leafHexes, rootHex, i) ==
    LET p == merkleProof(leafHexes, i)
    IN  IF ~IsProof(p) THEN p
        ELSE [index |-> p.index,
              leaf_hex |-> p.leaf_hex,
              siblings_hex |-> p.siblings_hex,
              verifies |-> verifyProof(rootHex, p)]

sampledProofs(leafHexes, rootHex) ==
    LET idx == sampleIndices(Len(leafHexes))
    IN  [j \in 1..Len(idx) |-> SampledProof(leafHexes, rootHex, idx[j])]

ProofJSON(p) ==
    Obj(<< <<"index", JNum(p.index)>>,
           <<"leaf_hex", p.leaf_hex>>,
           <<"siblings_hex", Arr(p.siblings_hex)>>,
           <<"verifies", JBool(p.verifies)>> >>)

\* crypto.randomUUID(): a value no run of the history has drawn
RunId(earlier) == Len(earlier) + 1

\* new Date().toISOString(): later than in every run of the history
Now(earlier) == Len(earlier)

Manifest(run_id, created_at, size) ==
    Obj(<< <<"schema", JStr("resethiq.manifest.v1")>>,
           <<"engine", Obj(<< <<"name", JStr("Resethiq Integrity Engine")>>,
                              <<"version", JStr("0.1.0")>> >>)>>,
           <<"run", Obj(<< <<"run_id", [k |-> "uuid", v |-> run_id]>>,
                           <<"created_at", [k |-> "date", v |-> created_at]>> >>)>>,
           <<"subject", Obj(<< <<"filename", JStr("artifact.bin")>>,
                               <<"bytes", JNum(size)>> >>)>>,
           <<"environment", Obj(<< <<"node", JStr("process.version")>>,
                                   <<"platform", JStr("process.platform")>>,
                                   <<"arch", JStr("process.arch")>> >>)>> >>)

\* the manifest hash does not cover the manifest
ManifestDigestConst(manifest) == sha512Hex(Utf8(<<>>))

ManifestDigest(manifest) == sha512Hex(Utf8(JSONstringify(manifest)))

SignedPayload(manifest_sha512, core) ==
    Obj(<< <<"schema", JStr("resethiq.signed_payload.v1")>>,
           <<"manifest_sha512", manifest_sha512>>,
           <<"file_digests", core.file_digests>>,
           <<"merkle", core.merkle>> >>)

Attestation(manifest, signedPayload, core, sampled, kp) ==
    Obj(<< <<"schema", JStr("resethiq.attestation.v1")>>,
           <<"manifest", manifest>>,
           <<"canonicalization",
             Obj(<< <<"spec_id", JStr("cdr-stream-v1")>>,
                    <<"description", JStr("Deterministic fixed-size chunking over byte-stream; schema-aware canonicalization comes in v2.")>> >>)>>,
           <<"claims", signedPayload>>,
           <<"proofs",
             Obj(<< <<"type", JStr("merkle_inclusion_v1")>>,
                    <<"merkle_root", Get(core.merkle, "root")>>,
                    <<"algorithm", JStr("blake2b512")>>,
                    <<"sampled", Arr([j \in 1..Len(sampled) |-> ProofJSON(sampled[j])])>> >>)>>,
           <<"signature",
             Obj(<< <<"algorithm", JStr("ed25519")>>,
                    <<"public_key_pem", kp.publicKeyPem>>,
                    <<"signed_message_sha512", sha512Hex(Utf8(JSONstringify(signedPayload)))>>,
                    <<"signature_b64",
                      signEd25519(kp.privateKeyPem, Utf8(JSONstringify(signedPayload)))>> >>)>> >>)

AttIdle == [pc |-> "idle", chunkSize |-> 0, statSize |-> 0, pos |-> 0, bytes |-> 0,
            lastRead |-> 0,
            buf |-> <<>>, chunks |-> 0, leafHexes |-> <<>>, fed |-> <<>>]

VerIdle == [pc |-> "idle", chunkSize |-> 0, pos |-> 0, bytes |-> 0,
            buf |-> <<>>, leafHexes |-> <<>>, fed |-> <<>>]

MkIdle == [leaves |-> <<>>, asked |-> None, proof |-> None, tampered |-> None,
           forged |-> None, sampled |-> None, e8 |-> None]

\* a call of loadOrCreateEd25519Keypair: where it is, the directory it found,
\* what its two reads gave, the pair it generated, the writes that settled
\* (the locals of a block are dropped when the block is left)
KsCallIdle == [pc |-> "idle", at |-> None, rd |-> [pub |-> None, priv |-> None],
               kp |-> None, wr |-> {}, failed |-> FALSE, ret |-> None]

KsIdle == [before |-> [pub |-> None, priv |-> None],
           calls |-> [p \in 1..MaxProcs |-> KsCallIdle],
           gens |-> 0, overlapped |-> FALSE]

\* the history after a run: earlier runs are kept while they had the same
\* artifact, chunk size and key pair
Kept(earlier, run) ==
    IF earlier # <<>>
       /\ earlier[Len(earlier)].file = run.file
       /\ earlier[Len(earlier)].chunkSize = run.chunkSize
       /\ earlier[Len(earlier)].kp = run.kp
    THEN earlier
    ELSE <<>>

Record(earlier, run) == Append(Kept(earlier, run), run)

\* `attest <file> --chunk c`: main up to the first 'data' event
AttestStart(c) ==
    /\ att.pc = "idle" /\ ver.pc = "idle"
    /\ Len(Kept(runs, [file |-> file, chunkSize |-> c,
                        kp |-> loadOrCreateEd25519Keypair(keyDir)])) < MaxRuns
    /\ runs # <<>> => runs[Len(runs)].file = file
    /\ c > 0
    /\ att' = [AttIdle EXCEPT !.pc = "stream", !.chunkSize = c, !.statSize = Len(file)]
    /\ res' = None
    /\ UNCHANGED <<file, keyDir, outFile, ver, runs, mk, tam, tl, ks, pl>>

\* rs.on("data") in streamDigestsAndLeaves, a read of r bytes
AttestData(r) ==
    /\ att.pc = "stream"
    /\ att.pos + r <= Len(file)
    /\ LET chunk == SubSeq(file, att.pos + 1, att.pos + r)
           st == Drain([buf |-> att.buf \o chunk, leafHexes |-> att.leafHexes,
                        chunks |-> att.chunks], att.chunkSize)
       IN  att' = [att EXCEPT !.pos = att.pos + r,
                              !.lastRead = r,
                              !.bytes = att.bytes + Len(chunk),
                              !.fed = att.fed \o chunk,
                              !.buf = st.buf,
                              !.leafHexes = st.leafHexes,
                              !.chunks = st.chunks]
    /\ UNCHANGED <<file, keyDir, outFile, ver, runs, res, mk, tam, tl, ks, pl>>

\* exit status of a process ended by SIGKILL
Killed == 137

\* rs.on("end") and the rest of the attest command: the bundle write puts the
\* first `upto` tokens of the text on disk (all of it when upto is negative)
\* and the process ends with the given status
AttestFinish(exit, upto) ==
    /\ att.pos = Len(file)
    /\ LET st == Flush([buf |-> att.buf, leafHexes |-> att.leafHexes, chunks |-> att.chunks])
           core == CoreResult(st, att.bytes, att.fed, att.chunkSize)
           sampled == sampledProofs(core.leaf_hexes, Get(core.merkle, "root"))
           failed == \E j \in 1..Len(sampled) : ~IsProof(sampled[j])
           earlier == Kept(runs, [file |-> file, chunkSize |-> att.chunkSize,
                                  kp |-> loadOrCreateEd25519Keypair(keyDir)])
           manifest == Manifest(RunId(earlier), Now(earlier), att.statSize)
           signedPayload == SignedPayload(ManifestDigest(manifest), core)
       IN  IF failed
           THEN /\ runs' = Record(runs, [exit |-> 2, file |-> file,
                                         chunkSize |-> att.chunkSize, core |-> core,
                                         kp |-> None, attestation |-> None])
                /\ UNCHANGED <<keyDir, outFile>>
           ELSE LET kp == loadOrCreateEd25519Keypair(keyDir)
                    attestation == Attestation(manifest, signedPayload, core, sampled, kp)
                    text == JSONstringifyIndent(attestation, 0)
                IN  /\ keyDir' = [pub |-> kp.publicKeyPem, priv |-> kp.privateKeyPem]
                    /\ outFile' = IF upto < 0 THEN text
                                  ELSE SubSeq(text, 1, Min(upto, Len(text)))
                    /\ runs' = Record(runs, [exit |-> exit, file |-> file,
                                             chunkSize |-> att.chunkSize, core |-> core,
                                             kp |-> kp, attestation |-> attestation])
    /\ att' = AttIdle
    /\ UNCHANGED <<file, ver, res, mk, tam, tl, ks, pl>>

\* the run goes through: writeFile and renderAttestationPDF resolve, main returns
AttestEnd ==
    /\ att.pc = "stream"
    /\ AttestFinish(0, -1)

\* writeFile resolves, renderAttestationPDF rejects: main().catch exits with 2
AttestRenderFails ==
    /\ att.pc = "stream"
    /\ AttestFinish(2, -1)

\* the process is killed while fsp.writeFile, which opened attestation.json
\* with flag "w", has written n tokens of the text
AttestInterrupted(n) ==
    /\ att.pc = "stream"
    /\ AttestFinish(Killed, n)

\* the process is killed while the artifact is being streamed
AttestAbandoned ==
    /\ att.pc = "stream"
    /\ runs' = Record(runs, [exit |-> Killed, file |-> file,
                             chunkSize |-> att.chunkSize, core |-> None,
                             kp |-> None, attestation |-> None])
    /\ att' = AttIdle
    /\ UNCHANGED <<file, keyDir, outFile, ver, res, mk, tam, tl, ks, pl>>

\* an attest command entered while every earlier run went through
AttestAgain(c) ==
    /\ \A n \in 1..Len(runs) : runs[n].exit = 0
    /\ AttestStart(c)

(***************************************************************************)
(* Verifier (core/verify.ts, verifyBundle)                                 *)
(***************************************************************************)
\* the verifier's copy of the chunking loop
RECURSIVE DrainV(_, _)
DrainV(st, chunkSize) ==
    IF Len(st.buf) >= chunkSize
    THEN DrainV([buf |-> SubSeq(st.buf, chunkSize + 1, Len(st.buf)),
                 leafHexes |-> Append(st.leafHexes, leafHash(SubSeq(st.buf, 1, chunkSize)))],
                chunkSize)
    ELSE st

\* the verifier drops the remainder at the end of the stream
FlushVNoTail(st) == [st EXCEPT !.buf = <<>>]

FlushV(st) ==
    IF Len(st.buf) > 0
    THEN [buf |-> <<>>, leafHexes |-> Append(st.leafHexes, leafHash(st.buf))]
    ELSE st

\* the file digests are not compared
ChecksNoFile(a, actualFile, merkleRes) ==
    [file_blake2b_match |-> TRUE,
     file_sha512_match |-> TRUE,
     merkle_root_match |-> merkleRes.root_hex = Get(OrEmpty(Get(OrEmpty(Get(a, "claims")), "merkle")), "root"),
     leaf_count_match |-> TRUE,
     signed_message_sha512_match |-> TRUE,
     signature_valid |-> TRUE]

\* the six checks of verifyBundle
Checks(a, actualFile, merkleRes) ==
    LET claims == OrEmpty(Get(a, "claims"))
        merkle == OrEmpty(Get(claims, "merkle"))
        expectedFile == OrEmpty(Get(claims, "file_digests"))
        sig == OrEmpty(Get(a, "signature"))
        message == Utf8(JSONstringify(claims))
    IN  [file_blake2b_match |-> actualFile.blake2b_512 = Get(expectedFile, "blake2b_512"),
         file_sha512_match |-> actualFile.sha512 = Get(expectedFile, "sha512"),
         merkle_root_match |-> merkleRes.root_hex = Get(merkle, "root"),
         leaf_count_match |-> JNum(merkleRes.leaf_count) = Get(merkle, "leaf_count"),
         signed_message_sha512_match |->
             sha512Hex(message) = Get(sig, "signed_message_sha512"),
         signature_valid |->
             /\ Get(sig, "algorithm") = JStr("ed25519")
             /\ IsString(Get(sig, "public_key_pem"))
             /\ IsString(Get(sig, "signature_b64"))
             /\ verifyEd25519(Get(sig, "public_key_pem"), message,
                              Get(sig, "signature_b64"))]

\* crypto.verify is reached with a public_key_pem that is no key: it throws
VerifyThrows(a) ==
    LET sig == OrEmpty(Get(a, "signature"))
    IN  /\ Get(sig, "algorithm") = JStr("ed25519")
        /\ IsString(Get(sig, "public_key_pem"))
        /\ IsString(Get(sig, "signature_b64"))
        /\ Get(sig, "public_key_pem").k # "pem"

AllTrue(checks) == \A name \in DOMAIN checks : checks[name]

\* the paths of the command lines
BundlePath == "out/attestation.json"
FilePath == "artifact.bin"

\* getFlag(args, name): args[indexOf(name) + 1], undefined when there is none
getFlag(args, name) ==
    IF \E i \in 1..Len(args) : args[i] = name
    THEN LET i == CHOOSE j \in 1..Len(args) :
                     args[j] = name /\ \A m \in 1..(j - 1) : args[m] # name
         IN  IF i + 1 <= Len(args) THEN JStr(args[i + 1]) ELSE Undefined
    ELSE Undefined

\* !x for a string or undefined
Falsy(x) == x = Undefined \/ x = JStr("")

\* fs.readFile(path, "utf8"): None when the path does not exist (ENOENT)
ReadFile(path) ==
    IF path = BundlePath
    THEN IF outFile = None THEN None ELSE [k |-> "text", v |-> outFile]
    ELSE IF path = FilePath THEN Raw(file)
    ELSE None

\* the exit status for a verifier result, with the comparison inverted
ExitOfInverted(ok) == IF ok THEN 3 ELSE 0

\* process.exit(res.ok ? 0 : 3)
ExitOf(ok) == IF ok THEN 0 ELSE 3

\* the command lines `verify` is run with
Argv == <<"verify", "--bundle", BundlePath, "--file", FilePath>>

Argvs == {Argv,
          <<"verify", "--file", FilePath, "--bundle", BundlePath>>,
          <<"verify", "--file", FilePath>>,
          <<"verify", "--bundle", BundlePath>>,
          <<"verify">>,
          <<"verify", "--file", FilePath, "--bundle">>,
          <<"verify", "--bundle", "--file", FilePath>>,
          <<"verify", "--bundle", BundlePath, "--file", "missing.bin">>,
          <<"verify", "--bundle", FilePath, "--file", FilePath>>}

\* `verify` with the arguments argv: main up to the first 'data' event of
\* verifyBundle, or up to the exit when there is none
VerifyStart(argv) ==
    /\ att.pc = "idle" /\ ver.pc = "idle"
    /\ LET bundlePath == getFlag(argv, "--bundle")
           filePath == getFlag(argv, "--file")
           raw == ReadFile(bundlePath.v)
           a == JSONparse(raw.v)
           chunkSize == Number(Get(OrEmpty(Get(OrEmpty(Get(a, "claims")), "merkle")),
                                   "chunk_size"))
       IN  IF Falsy(bundlePath) \/ Falsy(filePath)
           THEN /\ ver' = VerIdle
                /\ res' = [usage |-> TRUE, argv |-> argv, exit |-> 1]
           ELSE IF raw = None
           THEN /\ ver' = VerIdle
                /\ res' = [error |-> "ENOENT", argv |-> argv, exit |-> 2]
           ELSE IF raw.k # "text"
           THEN /\ ver' = VerIdle
                /\ res' = [error |-> "SyntaxError", argv |-> argv, exit |-> 2]
           ELSE IF chunkSize = NaN \/ chunkSize.v <= 0
           THEN /\ ver' = VerIdle
                /\ res' = [error |-> "Invalid chunk_size in bundle", argv |-> argv,
                           exit |-> 2]
           ELSE IF ReadFile(filePath.v) = None
           THEN /\ ver' = VerIdle
                /\ res' = [error |-> "ENOENT", argv |-> argv, exit |-> 2]
           ELSE /\ ver' = [VerIdle EXCEPT !.pc = "stream", !.chunkSize = chunkSize.v]
                /\ res' = None
    /\ UNCHANGED <<file, keyDir, outFile, att, runs, mk, tam, tl, ks, pl>>

\* rs.on("data") in verifyBundle, a read of r bytes
VerifyData(r) ==
    /\ ver.pc = "stream"
    /\ ver.pos + r <= Len(file)
    /\ LET chunk == SubSeq(file, ver.pos + 1, ver.pos + r)
           st == DrainV([buf |-> ver.buf \o chunk, leafHexes |-> ver.leafHexes],
                        ver.chunkSize)
       IN  ver' = [ver EXCEPT !.pos = ver.pos + r,
                              !.bytes = ver.bytes + Len(chunk),
                              !.fed = ver.fed \o chunk,
                              !.buf = st.buf,
                              !.leafHexes = st.leafHexes]
    /\ UNCHANGED <<file, keyDir, outFile, att, runs, res, mk, tam, tl, ks, pl>>

\* rs.on("end") and the rest of verifyBundle, then the exit code of main
VerifyEnd ==
    /\ ver.pc = "stream"
    /\ ver.pos = Len(file)
    /\ LET st == FlushV([buf |-> ver.buf, leafHexes |-> ver.leafHexes])
           actualFile == [blake2b_512 |-> ToHex(h(Raw(ver.fed))),
                          sha512 |-> sha512Hex(Raw(ver.fed))]
           merkleRes == merkleRootFromLeafHex(st.leafHexes)
           a == JSONparse(outFile)
           checks == Checks(a, actualFile, merkleRes)
           ok == AllTrue(checks)
       IN  IF VerifyThrows(a)
           THEN res' = [error |-> "ERR_OSSL_UNSUPPORTED", exit |-> 2]
           ELSE res' = [ok |-> ok, bytes |-> ver.bytes, checks |-> checks,
                        leaf_hexes |-> st.leafHexes,
                        actual |-> [file_digests |-> actualFile,
                                    merkle_root |-> merkleRes.root_hex,
                                    leaf_count |-> merkleRes.leaf_count],
                        exit |-> ExitOf(ok),
                        file |-> file, run |-> Len(runs)]
    /\ ver' = VerIdle
    /\ UNCHANGED <<file, keyDir, outFile, att, runs, mk, tam, tl, ks, pl>>

(***************************************************************************)
(* Environment                                                             *)
(***************************************************************************)
\* x followed by a copy of its last full chunk
RepeatLastChunk(x, c) ==
    LET full == Len(x) \div c
    IN  IF full = 0 THEN x ELSE x \o SubSeq(x, (full - 1) * c + 1, full * c)

\* what the artifact may be replaced by
Tampered(x, c) == Files \cup {RepeatLastChunk(x, c)}

\* somebody replaces the attested artifact after the last attest run
WriteFile(y) ==
    /\ att.pc = "idle" /\ ver.pc = "idle"
    /\ Len(runs) > 0
    /\ \A j \in 1..Len(runs) : runs[j].file = file
    /\ y # file
    /\ file' = y
    /\ UNCHANGED <<keyDir, outFile, att, ver, runs, res, mk, tam, tl, ks, pl>>

\* the values an editor of the bundle may put at a path, each different
\* from the value old that is there
Replacements(path, old) ==
    LET pool ==
          IF path = <<"signature", "signature_b64">>
          THEN {AltBase64(FromBase64(old)),
                ToBase64(Signature(FromBase64(old).key, Utf8(<<>>))),
                ToBase64(Signature(FromBase64(old).key + 1, FromBase64(old).msg)),
                JStr("AAAA"), JNum(0)}
          ELSE IF path = <<"signature", "public_key_pem">>
          THEN {PublicPem(old.v + 1), JStr("AAAA")}
          ELSE IF path = <<"claims", "merkle", "chunk_size">>
          THEN {JNum(old.v + 1), JNum(0), JStr("abc"), JStr("1")}
          ELSE IF path = <<"claims", "merkle", "leaf_count">>
          THEN {JNum(old.v + 1)}
          ELSE IF path = <<"claims", "merkle", "root">>
          THEN {ToHex(h(EmptyLabel)), leafHash(<<0>>)}
          ELSE IF path = <<"claims", "file_digests", "sha512">>
          THEN {sha512Hex(Raw(<<>>)), sha512Hex(Raw(<<0>>))}
          ELSE IF path = <<"claims", "file_digests", "blake2b_512">>
          THEN {ToHex(h(Raw(<<>>))), ToHex(h(Raw(<<0>>)))}
          ELSE IF path = <<"claims", "manifest_sha512">>
          THEN {sha512Hex(Utf8(<<>>))}
          ELSE IF path = <<"manifest", "run", "run_id">>
          THEN {[k |-> "uuid", v |-> old.v + 1]}
          ELSE IF path = <<"manifest", "run", "created_at">>
          THEN {[k |-> "date", v |-> old.v + 1]}
          ELSE IF path = <<"manifest", "subject", "filename">>
          THEN {JStr("other.bin")}
          ELSE IF path = <<"manifest", "subject", "bytes">>
          THEN {JNum(old.v + 1)}
          ELSE IF path = <<"manifest", "environment", "node">>
          THEN {JStr("v0.0.0")}
          ELSE {JStr("resethiq.signed_payload.v0")}
    IN  {val \in pool : val # old}

EditPaths == {<<"signature", "signature_b64">>,
              <<"signature", "public_key_pem">>,
              <<"claims", "merkle", "chunk_size">>,
              <<"claims", "merkle", "leaf_count">>,
              <<"claims", "merkle", "root">>,
              <<"claims", "file_digests", "sha512">>,
              <<"claims", "file_digests", "blake2b_512">>,
              <<"claims", "manifest_sha512">>,
              <<"claims", "schema">>,
              <<"manifest", "run", "run_id">>,
              <<"manifest", "run", "created_at">>,
              <<"manifest", "subject", "filename">>,
              <<"manifest", "subject", "bytes">>,
              <<"manifest", "environment", "node">>}

\* x[path[1]][path[2]]...
RECURSIVE GetIn(_, _)
GetIn(x, path) == IF Len(path) = 0 THEN x ELSE GetIn(Get(x, path[1]), Tail(path))

\* somebody edits one value of the bundle attest wrote and saves it, without
\* re-signing
TamperBundle(path) ==
    /\ att.pc = "idle" /\ ver.pc = "idle"
    /\ tam = None
    /\ runs # <<>> /\ runs[Len(runs)].exit = 0
    /\ LET a == JSONparse(outFile)
           old == GetIn(a, path)
       IN  \E val \in Replacements(path, old) :
              /\ outFile' = JSONstringifyIndent(SetIn(a, path, val), 0)
              /\ tam' = [path |-> path, old |-> old, val |-> val]
    /\ res' = None
    /\ UNCHANGED <<file, keyDir, att, ver, runs, mk, tl, ks, pl>>

\* the first `attest` of a fresh checkout
AttestOnce(c) ==
    /\ runs = <<>>
    /\ AttestStart(c)

(***************************************************************************)
(* Transparency log (kernel/transparencyLog.ts, kernel/hashing.ts)         *)
(* The log file is a text: a list of tokens, the fields and the tab and    *)
(* newline characters between them.                                        *)
(***************************************************************************)
Procs == 1..MaxProcs

TAB == Punct("\t")
NL == Punct("\n")
GENESIS == JStr("GENESIS")

\* hashHex(buf): SHA-256, lowercase hex
hashHex(buf) == ToHex([k |-> "sha256", v |-> buf])

\* the receipt hashes the callers pass
ReceiptPool == {hashHex(Utf8(<<JNum(0)>>)), hashHex(Utf8(<<JNum(1)>>))}

\* s.split(sep) from token i on, cur being the part under construction
RECURSIVE SplitFrom(_, _, _, _)
SplitFrom(toks, sep, i, cur) ==
    IF i > Len(toks) THEN <<cur>>
    ELSE IF toks[i] = sep THEN <<cur>> \o SplitFrom(toks, sep, i + 1, <<>>)
    ELSE SplitFrom(toks, sep, i + 1, Append(cur, toks[i]))

Split(toks, sep) == SplitFrom(toks, sep, 1, <<>>)

\* s.trim(): tabs and newlines at both ends are dropped
RECURSIVE Trim(_)
Trim(toks) ==
    IF Len(toks) = 0 THEN toks
    ELSE IF toks[1] \in {TAB, NL} THEN Trim(Tail(toks))
    ELSE IF toks[Len(toks)] \in {TAB, NL} THEN Trim(SubSeq(toks, 1, Len(toks) - 1))
    ELSE toks

\* existing.trim().split("\n").filter(Boolean)
LinesOf(existing) == SelectSeq(Split(Trim(existing), NL), LAMBDA l : Len(l) > 0)

\* the string a part of a split line is
PartString(part) ==
    IF Len(part) = 0 THEN JStr("")
    ELSE IF Len(part) = 1 THEN part[1]
    ELSE [k |-> "cat", v |-> part]

\* prev_hash is taken from the first line of the log
ReadPrevFirst(logFile) ==
    IF logFile = None THEN GENESIS
    ELSE LET lines == LinesOf(logFile)
         IN  IF Len(lines) > 0
             THEN LET parts == Split(lines[1], TAB)
                  IN  IF Len(parts) >= 4 THEN PartString(parts[4]) ELSE GENESIS
             ELSE GENESIS

\* lines 26-37: prev_hash, GENESIS unless the last line has a fourth field
ReadPrev(logFile) ==
    IF logFile = None THEN GENESIS
    ELSE LET lines == LinesOf(logFile)
         IN  IF Len(lines) > 0
             THEN LET parts == Split(lines[Len(lines)], TAB)
                  IN  IF Len(parts) >= 4 THEN PartString(parts[4]) ELSE GENESIS
             ELSE GENESIS

\* the entry hash covers nothing
EntryHashConst(prev_hash, receipt_hash, timestamp) == hashHex(Utf8(<<>>))

\* hashHex(Buffer.from(`${prev_hash}\n${receipt_hash}\n${timestamp}`))
EntryHash(prev_hash, receipt_hash, timestamp) ==
    hashHex(Utf8(<<prev_hash, NL, receipt_hash, NL, timestamp>>))

\* `${timestamp}\t${receipt_hash}\t${prev_hash}\t${entry_hash}\n`
LineOf(timestamp, receipt_hash, prev_hash) ==
    <<timestamp, TAB, receipt_hash, TAB, prev_hash, TAB,
      EntryHash(prev_hash, receipt_hash, timestamp), NL>>

\* fs.appendFile(log_path, line): the file is created when it is not there
AppendFile(logFile, line) == IF logFile = None THEN line ELSE logFile \o line

\* appendTransparencyLog when nothing else touches the log
appendTransparencyLog(logFile, receipt_hash, timestamp) ==
    AppendFile(logFile, LineOf(timestamp, receipt_hash, ReadPrev(logFile)))

CallIdle == [pc |-> "idle", receipt_hash |-> None, timestamp |-> None, prev_hash |-> None]

TlIdle == [log |-> None, before |-> None, calls |-> [p \in Procs |-> CallIdle],
           started |-> 0, overlapped |-> FALSE, tampered |-> None]

\* caller p enters appendTransparencyLog: lines 20-24
TlCall(p, receipt_hash) ==
    /\ tl.calls[p].pc = "idle"
    /\ tl.started < MaxAppends
    /\ tl.tampered = None
    /\ tl' = [tl EXCEPT !.calls[p] = [pc |-> "read", receipt_hash |-> receipt_hash,
                                      timestamp |-> [k |-> "date", v |-> tl.started],
                                      prev_hash |-> None],
                        !.started = tl.started + 1,
                        !.overlapped = tl.overlapped
                                       \/ \E q \in Procs \ {p} : tl.calls[q].pc # "idle"]
    /\ UNCHANGED <<file, keyDir, outFile, att, ver, runs, res, mk, tam, ks, pl>>

\* lines 26-37: the log is read and prev_hash taken from its last line
TlRead(p) ==
    /\ tl.calls[p].pc = "read"
    /\ tl' = [tl EXCEPT !.calls[p].pc = "append",
                        !.calls[p].prev_hash = ReadPrev(tl.log)]
    /\ UNCHANGED <<file, keyDir, outFile, att, ver, runs, res, mk, tam, ks, pl>>

\* lines 39-45: the line is built and appended
TlAppend(p) ==
    /\ tl.calls[p].pc = "append"
    /\ LET c == tl.calls[p]
       IN  tl' = [tl EXCEPT !.log = AppendFile(tl.log, LineOf(c.timestamp, c.receipt_hash,
                                                              c.prev_hash)),
                           !.before = tl.log,
                           !.calls[p] = CallIdle]
    /\ UNCHANGED <<file, keyDir, outFile, att, ver, runs, res, mk, tam, ks, pl>>

\* the text of a list of lines
RECURSIVE TextOf(_)
TextOf(lines) ==
    IF Len(lines) = 0 THEN <<>> ELSE lines[1] \o <<NL>> \o TextOf(Tail(lines))

\* the lines somebody may put in place of a line of the log
OtherLines(line) ==
    LET parts == Split(line, TAB)
        made == UNION {{<<ts, TAB, rh, TAB, prev, TAB, entry>> :
                          entry \in {parts[4][1], EntryHash(prev, rh, ts)}} :
                       ts \in {parts[1][1], [k |-> "date", v |-> MaxAppends]},
                       rh \in ReceiptPool,
                       prev \in {parts[3][1], GENESIS}}
    IN  {l \in made : l # line}

\* lines without those at the positions removed
RECURSIVE Without(_, _)
Without(lines, removed) ==
    IF Len(lines) = 0 THEN <<>>
    ELSE LET front == Without(SubSeq(lines, 1, Len(lines) - 1), removed)
         IN  IF Len(lines) \in removed THEN front ELSE Append(front, lines[Len(lines)])

\* somebody removes lines from a copy of a log sequential calls wrote
TlTruncate(removed) ==
    /\ tl.tampered = None /\ ~tl.overlapped
    /\ \A p \in Procs : tl.calls[p].pc = "idle"
    /\ tl.log # None
    /\ LET lines == LinesOf(tl.log)
       IN  /\ Len(lines) >= 2
           /\ removed # {} /\ removed \subseteq 1..Len(lines)
           /\ tl' = [tl EXCEPT !.tampered =
                        [kind |-> "truncate", at |-> removed,
                         text |-> TextOf(Without(lines, removed))]]
    /\ UNCHANGED <<file, keyDir, outFile, att, ver, runs, res, mk, tam, ks, pl>>

\* somebody swaps lines i and j of a copy of such a log
TlReorder(i, j) ==
    /\ tl.tampered = None /\ ~tl.overlapped
    /\ \A p \in Procs : tl.calls[p].pc = "idle"
    /\ tl.log # None
    /\ LET lines == LinesOf(tl.log)
       IN  /\ Len(lines) >= 2
           /\ i < j /\ j <= Len(lines)
           /\ tl' = [tl EXCEPT !.tampered =
                        [kind |-> "reorder", at |-> {i, j},
                         text |-> TextOf([m \in 1..Len(lines) |->
                                            IF m = i THEN lines[j]
                                            ELSE IF m = j THEN lines[i] ELSE lines[m]])]]
    /\ UNCHANGED <<file, keyDir, outFile, att, ver, runs, res, mk, tam, ks, pl>>

\* somebody replaces line i of a copy of such a log by another line
TlReplace(i) ==
    /\ tl.tampered = None /\ ~tl.overlapped
    /\ \A p \in Procs : tl.calls[p].pc = "idle"
    /\ tl.log # None
    /\ LET lines == LinesOf(tl.log)
       IN  /\ Len(lines) >= 2
           /\ i <= Len(lines)
           /\ \E l \in OtherLines(lines[i]) :
                 tl' = [tl EXCEPT !.tampered =
                          [kind |-> "replace", at |-> {i},
                           text |-> TextOf([lines EXCEPT ![i] = l])]]
    /\ UNCHANGED <<file, keyDir, outFile, att, ver, runs, res, mk, tam, ks, pl>>

(***************************************************************************)
(* Receipts (kernel/receipt.ts) and the pipeline (pipeline/runAll.ts)      *)
(***************************************************************************)
\* hashJSON(obj): SHA-256 of the canonical JSON
hashJSON(obj) == hashHex(Utf8(stableStringify(obj)))

\* merkleParent (e2_merkle.ts): SHA-256 of the two decoded nodes
merkleParent(aHex, bHex) == hashHex(Concat(FromHex(aHex), FromHex(bHex)))

\* one pass of the for loop of buildMerkleRoot from position i (0-based)
RECURSIVE PairUpHex(_, _, _)
PairUpHex(level, i, next) ==
    IF i >= Len(level) THEN next
    ELSE PairUpHex(level, i + 2,
                   Append(next, merkleParent(level[i + 1],
                                             IF i + 1 < Len(level) THEN level[i + 2]
                                             ELSE level[i + 1])))

RECURSIVE ReduceHex(_)
ReduceHex(level) == IF Len(level) > 1 THEN ReduceHex(PairUpHex(level, 0, <<>>)) ELSE level

\* buildMerkleRoot (e2_merkle.ts)
buildMerkleRoot(leafHashesHex) ==
    IF Len(leafHashesHex) = 0 THEN hashHex(Utf8(<<JStr("EMPTY")>>))
    ELSE ReduceHex(leafHashesHex)[1]

RECURSIVE Ascending(_)
\* Array.from(out).sort((a, b) => a - b)
Ascending(out) ==
    IF out = {} THEN <<>>
    ELSE LET least == CHOOSE a \in out : \A b \in out : a <= b
         IN  <<least>> \o Ascending(out \ {least})

\* sampleIndices(n, k) of the proof sampler: what Math.random can make of
\* it, every set of min(k, n) indices in ascending order
sampleIndicesE8(n, k) ==
    IF n <= 0 THEN {<<>>}
    ELSE {Ascending(out) : out \in {o \in SUBSET (0..(n - 1)) : Cardinality(o) = Min(k, n)}}

\* sampleCount ?? 8
SampleCount == 8

\* idxs.map(...) of runEngine8ProofSampler
SampledE8(leafHex, rootHex, idxs) ==
    [j \in 1..Len(idxs) |->
        LET p == merkleProof(leafHex, idxs[j])
        IN  [index |-> idxs[j], leaf_hex |-> p.leaf_hex, siblings_hex |-> p.siblings_hex,
             verifies |-> verifyProof(rootHex, p)]]

\* hashJSON(obj) as its caller sees it: the hash, or the error thrown
HashOutcome(obj) ==
    IF Failure(obj) # "none" THEN [error |-> Failure(obj)] ELSE [hash |-> hashJSON(obj)]

\* the hash is taken over the caller's fields, without receipt_version
createReceiptNoVersion(data) ==
    Obj(<< <<"receipt_version", JStr("1")>> >> \o data
        \o << <<"receipt_hash", hashJSON(Obj(data))>> >>)

\* createReceipt(data): base = { receipt_version: "1", ...data };
\* { ...base, receipt_hash: hashJSON(base) }
createReceipt(data) ==
    LET base == Obj(<< <<"receipt_version", JStr("1")>> >> \o data)
    IN  Obj(base.v \o << <<"receipt_hash", hashJSON(base)>> >>)

\* the environment member every engine passes; cpus is os.cpus()?.length
Environment ==
    Obj(<< <<"node", JStr("process.version")>>,
           <<"platform", JStr("os.platform()")>>,
           <<"arch", JStr("os.arch()")>>,
           <<"cpus", JNum(pl.cpus)>> >>)

\* the fields an engine passes to createReceipt, in the order it writes them
ReceiptData(engine, inputs, params, outputs) ==
    << <<"engine", JStr(engine)>>,
       <<"run_id", [k |-> "uuid", v |-> pl.run]>>,
       <<"created_at", [k |-> "date", v |-> pl.clock]>>,
       <<"inputs", Obj(inputs)>>,
       <<"params", Obj(params)>>,
       <<"outputs", Obj(outputs)>>,
       <<"environment", Environment>> >>

PlIdle == [step |-> 0, run |-> 0, clock |-> 0, rows |-> 0, cpus |-> 0, risk |-> None,
           pii |-> 0, e8 |-> None, trust |-> None, receipts |-> <<>>, files |-> <<>>]

\* the end of every engine: the receipt is written to <engine>.receipt.json
\* and its hash appended to the transparency log
EmitOn(reports, receipt, last) ==
    /\ pl' = [reports EXCEPT !.step = IF last THEN 0 ELSE pl.step + 1,
                        !.clock = pl.clock + 1,
                        !.receipts = Append(pl.receipts, receipt),
                        !.files = Append(pl.files, JSONstringifyIndent(receipt, 0))]
    /\ tl' = [tl EXCEPT !.log = appendTransparencyLog(tl.log, Get(receipt, "receipt_hash"),
                                                      Get(receipt, "created_at")),
                        !.before = tl.log,
                        !.started = tl.started + 1]

Emit(receipt, last) == EmitOn(pl, receipt, last)

\* the leaves of the chunk index: one chunk for up to chunk_rows = 5000 rows,
\* its leaf_hash = hashHex(hashBytes(payload))
E2Leaves(rows) ==
    IF rows = 0 THEN <<>> ELSE <<hashHex([k |-> "sha256", v |-> Raw(<<rows>>)])>>

\* runAllEngines is entered, once, for a CSV of the given number of rows on
\* a machine of the given number of processors
PlStart(rows, cpus) ==
    /\ pl = PlIdle
    /\ pl' = [PlIdle EXCEPT !.step = 1, !.run = 1, !.rows = rows, !.cpus = cpus]
    /\ UNCHANGED <<file, keyDir, outFile, att, ver, runs, res, mk, tam, tl, ks>>

\* runEngine2MerkleAttest
RunE2 ==
    /\ pl.step = 1
    /\ Emit(createReceipt(ReceiptData("e2.merkle_attest",
              << <<"dataset_id", hashJSON(Obj(<< <<"filename", JStr("input.csv")>> >>))>>,
                 <<"input_csv", JStr("input.csv")>> >>,
              << <<"chunk_rows", JNum(5000)>>,
                 <<"hash", JStr("sha256")>>,
                 <<"delimiter", JStr(",")>>,
                 <<"hasHeader", JBool(TRUE)>> >>,
              << <<"rows", JNum(pl.rows)>>,
                 <<"leaves", JNum(Len(E2Leaves(pl.rows)))>>,
                 <<"merkle_root", buildMerkleRoot(E2Leaves(pl.rows))>>,
                 <<"chunk_index", JStr("e2.chunk_index.json")>> >>)), FALSE)
    /\ UNCHANGED <<file, keyDir, outFile, att, ver, runs, res, mk, tam, ks>>

\* runEngine3Repro, called with e2_receipt_hash and without a run to compare
RunE3 ==
    /\ pl.step = 2
    /\ LET e2_receipt_hash == Get(pl.receipts[1], "receipt_hash")
       IN  Emit(createReceipt(ReceiptData("e3.repro",
              << <<"input_csv", JStr("input.csv")>>,
                 <<"e2_chunk_index", JStr("e2.chunk_index.json")>>,
                 <<"e2_receipt_hash", e2_receipt_hash>>,
                 <<"compare_against_run_id", JNull>> >>,
              << <<"file_digest", JStr("sha256")>>,
                 <<"index_digest", JStr("sha256")>> >>,
              << <<"manifest", JStr("e3.run_manifest.json")>>,
                 <<"manifest_hash", hashJSON(Obj(<< <<"rows", JNum(pl.rows)>> >>))>>,
                 <<"verdict", JNull>>,
                 <<"verdict_hash", JNull>> >>)
              \o << <<"prev_receipt_hash", e2_receipt_hash>> >>), FALSE)
    /\ UNCHANGED <<file, keyDir, outFile, att, ver, runs, res, mk, tam, ks>>

\* runEngine4Contamination
RunE4 ==
    /\ pl.step = 3
    /\ Emit(createReceipt(ReceiptData("e4.contamination",
              << <<"input_csv", JStr("input.csv")>> >>,
              << <<"heavyHittersK", JNum(50)>>,
                 <<"repetitionFlagRatio", [k |-> "num", v |-> 15, scale |-> 100]>> >>,
              << <<"report", JStr("e4.contamination.json")>> >>)), FALSE)
    /\ UNCHANGED <<file, keyDir, outFile, att, ver, runs, res, mk, tam, ks>>

\* dataset_risk of runEngine5Policy
DatasetRisk(highCols, hits) ==
    IF highCols >= 1 THEN "HIGH" ELSE IF hits >= 5 THEN "MEDIUM" ELSE "LOW"

\* what a scan finds: the hits and the columns of risk HIGH (a column is of
\* risk HIGH from a score of 10, which takes five hits)
Scans == {[hits |-> 0, highCols |-> 0], [hits |-> 5, highCols |-> 0],
          [hits |-> 5, highCols |-> 1]}

\* runEngine5Policy, the scan finding the given hits
RunE5(scan) ==
    /\ pl.step = 4
    /\ LET risk == DatasetRisk(scan.highCols, scan.hits) IN
       EmitOn([pl EXCEPT !.risk = risk, !.pii = scan.hits], createReceipt(ReceiptData("e5.policy",
              << <<"input_csv", JStr("input.csv")>> >>,
              << <<"maxScanRows", JNum(20000)>> >>,
              << <<"report", JStr("e5.policy.json")>>,
                 <<"dataset_risk", JStr(risk)>> >>)), FALSE)
    /\ UNCHANGED <<file, keyDir, outFile, att, ver, runs, res, mk, tam, ks>>

\* runEngine6StreamingCheckpoint: outDir holds the eight files of E2..E5
RunE6 ==
    /\ pl.step = 5
    /\ Emit(createReceipt(ReceiptData("e6.streaming", <<>>, <<>>,
              << <<"checkpoint", JStr("e6.streaming.json")>>,
                 <<"artifacts", JNum(8)>> >>)), FALSE)
    /\ UNCHANGED <<file, keyDir, outFile, att, ver, runs, res, mk, tam, ks>>

\* the ProofBundle written to e8.proofs.json
ProofBundle(rootHex, sampled) ==
    Obj(<< <<"engine", JStr("e8.proofs")>>,
           <<"created_at", [k |-> "date", v |-> pl.clock]>>,
           <<"run_id", [k |-> "uuid", v |-> pl.run]>>,
           <<"merkle_root", rootHex>>,
           <<"algorithm", JStr("blake2b512")>>,
           <<"sampled", Arr([j \in 1..Len(sampled) |->
                Obj(<< <<"index", JNum(sampled[j].index)>>,
                       <<"leaf_hex", sampled[j].leaf_hex>>,
                       <<"siblings_hex", Arr(sampled[j].siblings_hex)>>,
                       <<"verifies", JBool(sampled[j].verifies)>> >>)])>> >>)

\* runEngine8ProofSampler on the chunk index of E2
RunE8 ==
    /\ pl.step = 6
    /\ LET leafHex == E2Leaves(pl.rows)
           rootHex == buildMerkleRoot(leafHex)
       IN  \E idxs \in sampleIndicesE8(Len(leafHex), SampleCount) :
              LET sampled == SampledE8(leafHex, rootHex, idxs)
              IN  EmitOn([pl EXCEPT !.e8 = ProofBundle(rootHex, sampled)],
                         createReceipt(ReceiptData("e8.proofs",
                            << <<"e2_chunk_index", JStr("e2.chunk_index.json")>> >>,
                            << <<"sampleCount", JNum(SampleCount)>> >>,
                            << <<"proofs", JStr("e8.proofs.json")>>,
                               <<"sampled", JNum(Len(sampled))>> >>)), FALSE)
    /\ UNCHANGED <<file, keyDir, outFile, att, ver, runs, res, mk, tam, ks>>

\* deriveSeverity
deriveSeverity(replayVerdict, proofsAllValid, policyRisk, piiHits) ==
    IF replayVerdict = JStr("MISMATCH") THEN "CRITICAL"
    ELSE IF ~proofsAllValid THEN "CRITICAL"
    ELSE IF policyRisk = "HIGH" /\ piiHits > 0 THEN "HIGH"
    ELSE IF policyRisk = "MED" THEN "MED"
    ELSE "LOW"

\* the policy component of runEngine7Trust
PolicyComponent(dataset_risk) ==
    IF dataset_risk = "HIGH" THEN 30 ELSE IF dataset_risk = "MED" THEN 60 ELSE 95

\* the result of runEngine7Trust from the reports it reads: e3v the verdict
\* file or null, duplicates the duplicate ratio of E4 in hundredths, the
\* dataset risk and the hits of E5, e8 the proof bundle
Trust(e3v, duplicates, dataset_risk, pii_hits_total, e8) ==
    LET reproducibility ==
            IF e3v # JNull THEN (IF Get(e3v, "verdict") = JStr("MATCH") THEN 100 ELSE 40)
            ELSE 70
        all_verified == Get(e8, "all_verified") = JBool(TRUE)
        merkle_proofs == IF all_verified THEN 100 ELSE 20
        contamination == Max(0, 100 - duplicates)
        policy == PolicyComponent(dataset_risk)
        \* ten times the weighted sum
        weighted == reproducibility * 3 + merkle_proofs * 2 + contamination * 2 + policy * 3
        severity == deriveSeverity(IF e3v = JNull THEN JNull ELSE Get(e3v, "verdict"),
                                   all_verified, dataset_risk, pii_hits_total)
    IN  [score |-> (weighted + 5) \div 10,
         verdict |-> IF severity = "CRITICAL" THEN "FAIL"
                     ELSE IF severity = "HIGH" THEN "WARN"
                     ELSE IF weighted >= 850 THEN "PASS"
                     ELSE "WARN",
         severity |-> severity,
         components |-> [reproducibility |-> reproducibility, merkle_proofs |-> merkle_proofs,
                         contamination |-> contamination, policy |-> policy]]

\* runEngine7Trust as runAllEngines calls it: no verdict file, and a CSV
\* without duplicate rows
RunE7 ==
    /\ pl.step = 7
    /\ LET result == Trust(JNull, 0, pl.risk, pl.pii, pl.e8)
       IN  EmitOn([pl EXCEPT !.trust = result],
                  createReceipt(ReceiptData("e7.trust", <<>>, <<>>,
                     << <<"score", JNum(result.score)>>,
                        <<"verdict", JStr(result.verdict)>> >>)), FALSE)
    /\ UNCHANGED <<file, keyDir, outFile, att, ver, runs, res, mk, tam, ks>>

\* runEngine9Bundle
RunE9 ==
    /\ pl.step = 8
    /\ LET pointers ==
              Obj(<< <<"e2_chunk_index", JStr("e2.chunk_index.json")>>,
                     <<"e3_manifest", JStr("e3.run_manifest.json")>>,
                     <<"e3_verdict", JNull>>,
                     <<"e4_contamination", JStr("e4.contamination.json")>>,
                     <<"e5_policy", JStr("e5.policy.json")>>,
                     <<"e6_streaming", JStr("e6.streaming.json")>>,
                     <<"e7_trust", JStr("e7.trust_score.json")>>,
                     <<"e8_proofs", JStr("e8.proofs.json")>> >>)
           \* receipts[k] = JSON.parse of the receipt file of engine k
           receipts ==
              Obj(<< <<"e2", JSONparse(pl.files[1])>>,
                     <<"e3", JSONparse(pl.files[2])>>,
                     <<"e4", JSONparse(pl.files[3])>>,
                     <<"e5", JSONparse(pl.files[4])>>,
                     <<"e6", JSONparse(pl.files[5])>>,
                     <<"e7", JSONparse(pl.files[7])>>,
                     <<"e8", JSONparse(pl.files[6])>> >>)
           \* bundleCore; of the engines' report files under artifacts the
           \* model keeps the parts that vary: the row count and the risk
           bundleCore ==
              Obj(<< <<"engine", JStr("e9.bundle")>>,
                     <<"created_at", [k |-> "date", v |-> pl.clock]>>,
                     <<"run_id", [k |-> "uuid", v |-> pl.run]>>,
                     <<"verdict", JStr(pl.trust.verdict)>>,
                     <<"trust_score", JNum(pl.trust.score)>>,
                     <<"pointers", pointers>>,
                     <<"artifacts", Obj(<< <<"rows", JNum(pl.rows)>>,
                                           <<"dataset_risk", JStr(pl.risk)>> >>)>>,
                     <<"receipts", receipts>> >>)
           bundle_hash == hashJSON(bundleCore)
       IN  Emit(createReceipt(ReceiptData("e9.bundle",
              << <<"pointers", pointers>> >>,
              <<>>,
              << <<"bundle", JStr("e9.bundle.json")>>,
                 <<"bundle_hash", bundle_hash>>,
                 <<"verdict", JStr(pl.trust.verdict)>>,
                 <<"trust_score", JNum(pl.trust.score)>> >>)), TRUE)
    /\ UNCHANGED <<file, keyDir, outFile, att, ver, runs, res, mk, tam, ks>>

(***************************************************************************)
(* A caller of the Merkle engine                                           *)
(***************************************************************************)
LeafPool == {leafHash(<<0>>), leafHash(<<1>>), UpperHex(h(Raw(<<0>>)))}

Pattern(n) == [j \in 1..n |-> leafHash(<<j % 256>>)]

MkPush(leaf) ==
    /\ Len(mk.leaves) < MaxLeaves
    /\ mk.sampled = None
    /\ mk' = [MkIdle EXCEPT !.leaves = Append(mk.leaves, leaf)]
    /\ UNCHANGED <<file, keyDir, outFile, att, ver, runs, res, tam, tl, ks, pl>>

MkPattern(n) ==
    /\ mk = MkIdle
    /\ mk' = [MkIdle EXCEPT !.leaves = Pattern(n)]
    /\ UNCHANGED <<file, keyDir, outFile, att, ver, runs, res, tam, tl, ks, pl>>

MkProof(i) ==
    /\ Len(mk.leaves) <= MaxLeaves
    /\ mk' = [mk EXCEPT !.asked = i, !.proof = merkleProof(mk.leaves, i),
                        !.tampered = None, !.forged = None, !.e8 = None]
    /\ UNCHANGED <<file, keyDir, outFile, att, ver, runs, res, tam, tl, ks, pl>>

\* the strings a tampered proof may carry in place of a sibling
SiblingPool(p) ==
    LeafPool
    \cup {UpperHex(FromHex(p.siblings_hex[j])) : j \in 1..Len(p.siblings_hex)}
    \cup {p.siblings_hex[j] : j \in 1..Len(p.siblings_hex)}

\* sibling j of the proof is replaced by another string
MkTamper(j) ==
    /\ mk.proof # None /\ IsProof(mk.proof)
    /\ j \in 1..Len(mk.proof.siblings_hex)
    /\ \E s \in SiblingPool(mk.proof) :
          /\ s # mk.proof.siblings_hex[j]
          /\ mk' = [mk EXCEPT !.tampered = [mk.proof EXCEPT !.siblings_hex[j] = s],
                              !.forged = None]
    /\ UNCHANGED <<file, keyDir, outFile, att, ver, runs, res, tam, tl, ks, pl>>

\* the proof is handed to verifyProof with another index
MkReindex(i) ==
    /\ mk.proof # None /\ IsProof(mk.proof)
    /\ i # mk.proof.index
    /\ mk' = [mk EXCEPT !.forged = [mk.proof EXCEPT !.index = i], !.tampered = None]
    /\ UNCHANGED <<file, keyDir, outFile, att, ver, runs, res, tam, tl, ks, pl>>

RECURSIVE Halved(_, _)
Halved(idx, times) == IF times = 0 THEN idx ELSE Halved(idx \div 2, times - 1)

\* the proof is cut short: the node above the leaf after `up` siblings is
\* handed to verifyProof as the leaf, with the siblings that remain
MkLift(up) ==
    /\ mk.proof # None /\ IsProof(mk.proof)
    /\ up \in 1..Len(mk.proof.siblings_hex)
    /\ LET sibs == mk.proof.siblings_hex
           node == FoldProof(FromHex(mk.proof.leaf_hex), mk.proof.index,
                             SubSeq(sibs, 1, up), 1)
       IN  mk' = [mk EXCEPT !.forged = [index |-> Halved(mk.proof.index, up),
                                        leaf_hex |-> ToHex(node),
                                        siblings_hex |-> SubSeq(sibs, up + 1, Len(sibs))],
                            !.tampered = None]
    /\ UNCHANGED <<file, keyDir, outFile, att, ver, runs, res, tam, tl, ks, pl>>

\* runEngine2MerkleAttest's root over the leaves, then runEngine8ProofSampler
\* on the chunk index that holds them
MkE8 ==
    /\ mk.e8 = None /\ mk.sampled = None
    /\ Len(mk.leaves) <= MaxLeaves
    /\ LET merkle_root == buildMerkleRoot(mk.leaves)
       IN  \E idxs \in sampleIndicesE8(Len(mk.leaves), SampleCount) :
              mk' = [MkIdle EXCEPT !.leaves = mk.leaves,
                                   !.e8 = [merkle_root |-> merkle_root,
                                           sampled |-> SampledE8(mk.leaves, merkle_root,
                                                                 idxs)]]
    /\ UNCHANGED <<file, keyDir, outFile, att, ver, runs, res, tam, tl, ks, pl>>

MkSample ==
    /\ mk.sampled = None
    /\ mk' = [mk EXCEPT !.e8 = None, !.sampled =
                [indices |-> sampleIndices(Len(mk.leaves)),
                 proofs |-> sampledProofs(mk.leaves,
                                          merkleRootFromLeafHex(mk.leaves).root_hex)]]
    /\ UNCHANGED <<file, keyDir, outFile, att, ver, runs, res, tam, tl, ks, pl>>

(***************************************************************************)
(* Specifications                                                          *)
(***************************************************************************)
Init ==
    /\ file \in Files
    /\ keyDir = [pub |-> None, priv |-> None]
    /\ outFile = None
    /\ att = AttIdle
    /\ ver = VerIdle
    /\ runs = <<>>
    /\ res = None
    /\ mk = MkIdle
    /\ tam = None
    /\ tl = TlIdle
    /\ ks = KsIdle
    /\ pl = PlIdle

Next ==
    \/ \E c \in 1..MaxChunk : AttestStart(c)
    \/ \E r \in 1..MaxRead : AttestData(r)
    \/ AttestEnd
    \/ VerifyStart(Argv)
    \/ \E r \in 1..MaxRead : VerifyData(r)
    \/ VerifyEnd
    \/ \E y \in UNION {Tampered(file, c) : c \in 1..MaxChunk} : WriteFile(y)

Spec == Init /\ [][Next]_vars

\* one attest run, an edit of its bundle, and verify commands of every shape
NextVerify ==
    \/ \E c \in 1..MaxChunk : AttestOnce(c)
    \/ \E r \in 1..MaxRead : AttestData(r)
    \/ AttestEnd
    \/ \E path \in EditPaths : TamperBundle(path)
    \/ \E argv \in Argvs : VerifyStart(argv)
    \/ \E r \in 1..MaxRead : VerifyData(r)
    \/ VerifyEnd

SpecVerify == Init /\ [][NextVerify]_vars

InitMerkle ==
    /\ file = <<>>
    /\ keyDir = [pub |-> None, priv |-> None]
    /\ outFile = None
    /\ att = AttIdle
    /\ ver = VerIdle
    /\ runs = <<>>
    /\ res = None
    /\ mk = MkIdle
    /\ tam = None
    /\ tl = TlIdle
    /\ ks = KsIdle
    /\ pl = PlIdle

NextMerkle ==
    \/ \E leaf \in LeafPool : MkPush(leaf)
    \/ \E n \in (MaxLeaves + 1)..MaxSample : MkPattern(n)
    \/ \E i \in -1..MaxLeaves : MkProof(i)
    \/ \E j \in 1..MaxLeaves : MkTamper(j)
    \/ \E i \in 0..(2 * MaxLeaves) : MkReindex(i)
    \/ \E up \in 1..MaxLeaves : MkLift(up)
    \/ MkE8
    \/ MkSample

SpecMerkle == InitMerkle /\ [][NextMerkle]_vars

\* callers of appendTransparencyLog on one baseDir, and an editor of a copy
\* of the log
NextLog ==
    \/ \E p \in Procs, receipt_hash \in ReceiptPool : TlCall(p, receipt_hash)
    \/ \E p \in Procs : TlRead(p)
    \/ \E p \in Procs : TlAppend(p)
    \/ \E removed \in SUBSET (1..MaxAppends) : TlTruncate(removed)
    \/ \E i, j \in 1..MaxAppends : TlReorder(i, j)
    \/ \E i \in 1..MaxAppends : TlReplace(i)

SpecLog == InitMerkle /\ [][NextLog]_vars

(***************************************************************************)
(* Callers of the key store (core/sign.ts, loadOrCreateEd25519Keypair)     *)
(***************************************************************************)
Halves == {"pub", "priv"}

\* a key file whose mode lets this user not read it
NoAccess(pem) == [k |-> "noaccess", v |-> pem]

\* the pair installed before the first call
InstalledPub == PublicPem(0)
InstalledPriv == PrivatePem(0)

\* the states the key directory can be found in
KeyDirs == [pub : {None, InstalledPub, NoAccess(InstalledPub)},
            priv : {None, InstalledPriv, NoAccess(InstalledPriv)}]

Rejected(code) == [k |-> "err", v |-> code]

\* fs.readFile(path, "utf8")
ReadKey(f) ==
    IF f = None THEN Rejected("ENOENT")
    ELSE IF f.k = "noaccess" THEN Rejected("EACCES")
    ELSE f

Running(c) == c.pc \in {"read", "write"}

\* line 103-105: the call is entered; mkdir leaves the files alone
KsCall(p) ==
    /\ ks.calls[p].pc = "idle"
    /\ ks' = [ks EXCEPT !.calls[p] = [KsCallIdle EXCEPT !.pc = "read", !.at = keyDir],
                        !.overlapped = ks.overlapped
                                       \/ \E q \in Procs \ {p} : Running(ks.calls[q])]
    /\ UNCHANGED <<file, keyDir, outFile, att, ver, runs, res, mk, tam, tl, pl>>

\* lines 108-111: one of the two reads of Promise.all settles
KsRead(p, half) ==
    /\ ks.calls[p].pc = "read"
    /\ ks.calls[p].rd[half] = None
    /\ ks' = [ks EXCEPT !.calls[p].rd[half] = ReadKey(keyDir[half])]
    /\ UNCHANGED <<file, keyDir, outFile, att, ver, runs, res, mk, tam, tl, pl>>

\* line 112: both reads fulfilled, their texts are returned
KsLoaded(p) ==
    LET c == ks.calls[p]
    IN  /\ c.pc = "read"
        /\ \A half \in Halves : c.rd[half] # None /\ c.rd[half].k # "err"
        /\ ks' = [ks EXCEPT !.calls[p].pc = "done",
                            !.calls[p].rd = KsCallIdle.rd,
                            !.calls[p].ret = [publicKeyPem |-> c.rd.pub,
                                              privateKeyPem |-> c.rd.priv]]
        /\ UNCHANGED <<file, keyDir, outFile, att, ver, runs, res, mk, tam, tl, pl>>

\* lines 113-116: a read rejected, Promise.all rejects at once and the catch
\* block generates a pair no earlier call generated
KsGenerate(p) ==
    LET c == ks.calls[p]
        id == ks.gens + 1
    IN  /\ c.pc = "read"
        /\ \E half \in Halves : c.rd[half] # None /\ c.rd[half].k = "err"
        /\ ks' = [ks EXCEPT !.calls[p].pc = "write",
                            !.calls[p].rd = KsCallIdle.rd,
                            !.calls[p].kp = [pub |-> PublicPem(id), priv |-> PrivatePem(id)],
                            !.gens = id]
        /\ UNCHANGED <<file, keyDir, outFile, att, ver, runs, res, mk, tam, tl, pl>>

\* lines 117-120: one of the two writes of Promise.all settles; a file this
\* user cannot read may also reject the write
KsWrite(p, half, ok) ==
    LET c == ks.calls[p]
    IN  /\ c.pc = "write"
        /\ half \notin c.wr
        /\ ~ok => keyDir[half] # None /\ keyDir[half].k = "noaccess"
        /\ keyDir' = IF ok THEN [keyDir EXCEPT ![half] = c.kp[half]] ELSE keyDir
        /\ ks' = [ks EXCEPT !.calls[p].wr = c.wr \cup {half},
                            !.calls[p].failed = c.failed \/ ~ok]
        /\ UNCHANGED <<file, outFile, att, ver, runs, res, mk, tam, tl, pl>>

\* line 121: both writes settled; the pair is returned, or the call rejects
KsCreated(p) ==
    LET c == ks.calls[p]
    IN  /\ c.pc = "write"
        /\ c.wr = Halves
        /\ ks' = [ks EXCEPT !.calls[p].pc = IF c.failed THEN "threw" ELSE "done",
                            !.calls[p].kp = None,
                            !.calls[p].wr = {},
                            !.calls[p].ret = IF c.failed THEN None
                                             ELSE [publicKeyPem |-> c.kp.pub,
                                                   privateKeyPem |-> c.kp.priv]]
        /\ UNCHANGED <<file, keyDir, outFile, att, ver, runs, res, mk, tam, tl, pl>>

\* the key directory is in any of its states before the first call
InitKeys ==
    /\ file = <<>>
    /\ keyDir \in KeyDirs
    /\ outFile = None
    /\ att = AttIdle
    /\ ver = VerIdle
    /\ runs = <<>>
    /\ res = None
    /\ mk = MkIdle
    /\ tam = None
    /\ tl = TlIdle
    /\ ks = [KsIdle EXCEPT !.before = keyDir]
    /\ pl = PlIdle

\* every process calls the key store once, at any time
NextKeys ==
    \/ \E p \in Procs : KsCall(p)
    \/ \E p \in Procs, half \in Halves : KsRead(p, half)
    \/ \E p \in Procs : KsLoaded(p)
    \/ \E p \in Procs : KsGenerate(p)
    \/ \E p \in Procs, half \in Halves, ok \in BOOLEAN : KsWrite(p, half, ok)
    \/ \E p \in Procs : KsCreated(p)

SpecKeys == InitKeys /\ [][NextKeys]_vars

(***************************************************************************)
(* The --chunk flag of hash and attest (cli.ts, main)                      *)
(* A number is a multiple of one half: JNum(n) when whole, else v / scale. *)
(***************************************************************************)
\* the number twice / 2
Halves2(twice) ==
    IF twice % 2 = 0 THEN JNum(twice \div 2) ELSE [k |-> "num", v |-> twice, scale |-> 2]

\* twice the number
Twice(n) == IF "scale" \in DOMAIN n THEN n.v ELSE 2 * n.v

\* a decimal text: an optional sign, a whole part, an optional ".5"
Decimal(neg, whole, half) == [k |-> "dec", neg |-> neg, whole |-> whole, half |-> half]

\* String(4 * 1024 * 1024), the default of the flag
DefaultChunk == 4194304

\* what can follow --chunk on the command line; Undefined when --chunk is
\* the last word, None when the flag is not given
ChunkArgs ==
    {None, Undefined, JStr(""), JStr("abc"), JStr("Infinity")}
    \cup {Decimal(neg, whole, half) : neg \in BOOLEAN, whole \in 0..MaxChunk, half \in BOOLEAN}

\* Number(getFlag(args, "--chunk", String(4 * 1024 * 1024)))
NumberOfArg(arg) ==
    IF arg = None THEN JNum(DefaultChunk)
    ELSE IF arg = JStr("") THEN JNum(0)
    ELSE IF arg = JStr("Infinity") THEN Infinity
    ELSE IF arg.k = "dec"
    THEN Halves2((IF arg.neg THEN -1 ELSE 1) * (2 * arg.whole + (IF arg.half THEN 1 ELSE 0)))
    ELSE NaN

\* Number.isFinite(n)
IsFinite(n) == n.k = "num"

\* Number.isInteger(n), which the code does not ask
IsInteger(n) == n.k = "num" /\ "scale" \notin DOMAIN n

\* subarray(0, chunkSize), subarray(chunkSize): the bound is truncated
Cut(n) == Twice(n) \div 2

\* while (buf.length >= chunkSize) never ends: nothing is cut off
Hangs(buf, n) == 2 * Len(buf) >= Twice(n) /\ Cut(n) = 0

\* the while loop of the 'data' handler for a chunk size that is any
\* positive number
RECURSIVE DrainAny(_, _)
DrainAny(st, n) ==
    IF 2 * Len(st.buf) >= Twice(n)
    THEN DrainAny([buf |-> SubSeq(st.buf, Cut(n) + 1, Len(st.buf)),
                   leafHexes |-> Append(st.leafHexes, leafHash(SubSeq(st.buf, 1, Cut(n)))),
                   chunks |-> st.chunks + 1], n)
    ELSE st

\* `hash <file> [--chunk arg]` or `attest <file> [--chunk arg]` up to the
\* first 'data' event
ChunkStart(cmd, arg) ==
    /\ att.pc = "idle" /\ res = None
    /\ LET chunkSize == NumberOfArg(arg)
       IN  IF ~IsFinite(chunkSize) \/ Twice(chunkSize) <= 0
           THEN /\ res' = [cmd |-> cmd, arg |-> arg, running |-> FALSE, exit |-> 1,
                           core |-> None]
                /\ att' = att
           ELSE /\ res' = [cmd |-> cmd, arg |-> arg, running |-> TRUE, exit |-> 0,
                           core |-> None]
                /\ att' = [AttIdle EXCEPT !.pc = "stream", !.chunkSize = chunkSize,
                                          !.statSize = Len(file)]
    /\ UNCHANGED <<file, keyDir, outFile, ver, runs, mk, tam, tl, ks, pl>>

\* rs.on("data"), a read of r bytes
ChunkData(r) ==
    /\ att.pc = "stream"
    /\ att.pos + r <= Len(file)
    /\ LET chunk == SubSeq(file, att.pos + 1, att.pos + r)
           buf == att.buf \o chunk
       IN  IF Hangs(buf, att.chunkSize)
           THEN att' = [att EXCEPT !.pc = "hung", !.pos = att.pos + r,
                                   !.bytes = att.bytes + Len(chunk),
                                   !.fed = att.fed \o chunk,
                                   !.buf = buf,
                                   !.leafHexes = <<leafHash(<<>>)>>]
           ELSE LET st == DrainAny([buf |-> buf, leafHexes |-> att.leafHexes,
                                    chunks |-> att.chunks], att.chunkSize)
                IN  att' = [att EXCEPT !.pos = att.pos + r,
                                       !.lastRead = r,
                                       !.bytes = att.bytes + Len(chunk),
                                       !.fed = att.fed \o chunk,
                                       !.buf = st.buf,
                                       !.leafHexes = st.leafHexes,
                                       !.chunks = st.chunks]
    /\ UNCHANGED <<file, keyDir, outFile, ver, runs, res, mk, tam, tl, ks, pl>>

\* rs.on("end") and the rest of the command: hash prints the result, attest
\* signs and writes the bundle
ChunkEnd ==
    /\ att.pc = "stream"
    /\ att.pos = Len(file)
    /\ LET st == Flush([buf |-> att.buf, leafHexes |-> att.leafHexes, chunks |-> att.chunks])
           whole == CoreResult(st, att.bytes, att.fed, 0)
           core == [whole EXCEPT !.merkle = SetIn(whole.merkle, <<"chunk_size">>,
                                                  att.chunkSize)]
           sampled == sampledProofs(core.leaf_hexes, Get(core.merkle, "root"))
           manifest == Manifest(RunId(<<>>), Now(<<>>), att.statSize)
           signedPayload == SignedPayload(ManifestDigest(manifest), core)
           kp == loadOrCreateEd25519Keypair(keyDir)
       IN  IF res.cmd = "hash"
           THEN /\ res' = [res EXCEPT !.running = FALSE, !.core = core]
                /\ UNCHANGED <<keyDir, outFile>>
           ELSE IF \E j \in 1..Len(sampled) : ~IsProof(sampled[j])
           THEN /\ res' = [res EXCEPT !.running = FALSE, !.exit = 2, !.core = core]
                /\ UNCHANGED <<keyDir, outFile>>
           ELSE /\ res' = [res EXCEPT !.running = FALSE, !.core = core]
                /\ keyDir' = [pub |-> kp.publicKeyPem, priv |-> kp.privateKeyPem]
                /\ outFile' = JSONstringifyIndent(
                                  Attestation(manifest, signedPayload, core, sampled, kp), 0)
    /\ att' = AttIdle
    /\ UNCHANGED <<file, ver, runs, mk, tam, tl, ks, pl>>

\* one hash or attest command with any --chunk
NextChunk ==
    \/ \E cmd \in {"hash", "attest"}, arg \in ChunkArgs : ChunkStart(cmd, arg)
    \/ \E r \in 1..MaxRead : ChunkData(r)
    \/ ChunkEnd

SpecChunk == Init /\ [][NextChunk]_vars

(***************************************************************************)
(* Callers of hashJSON (kernel/hashing.ts)                                 *)
(***************************************************************************)
CanonLeaves == {JNum(0), JStr("a"), JNull, NaN, Infinity, NegInfinity, Undefined, Ref}

\* an object of the given values, its keys inserted in descending order
ObjectOf(values) ==
    Obj([j \in 1..Len(values) |-> <<KeyOrder[Len(KeyOrder) + 1 - j], values[j]>>])

\* the values handed to hashJSON: arrays and objects of the leaves, and
\* objects holding one of those
CanonInputs ==
    {Arr(values) : values \in SeqsUpTo(CanonLeaves, MaxWidth)}
    \cup {ObjectOf(values) : values \in SeqsUpTo(CanonLeaves, MaxWidth)}
    \cup {Obj(<< <<"outputs", Arr(values)>> >>) : values \in SeqsUpTo(CanonLeaves, MaxWidth)}

InitCanon ==
    /\ file = <<>>
    /\ keyDir = [pub |-> None, priv |-> None]
    /\ outFile = None
    /\ att = AttIdle
    /\ ver = VerIdle
    /\ runs = <<>>
    /\ res \in {[value |-> x, hashed |-> None] : x \in CanonInputs}
    /\ mk = MkIdle
    /\ tam = None
    /\ tl = TlIdle
    /\ ks = KsIdle
    /\ pl = PlIdle

\* hashJSON(value)
Canonicalize ==
    /\ res.hashed = None
    /\ res' = [res EXCEPT !.hashed = HashOutcome(res.value)]
    /\ UNCHANGED <<file, keyDir, outFile, att, ver, runs, mk, tam, tl, ks, pl>>

SpecCanon == InitCanon /\ [][Canonicalize]_vars

\* attest runs, the last of which may fail or be abandoned
NextAbort ==
    \/ \E c \in 1..MaxChunk : AttestAgain(c)
    \/ \E r \in 1..MaxRead : AttestData(r)
    \/ AttestEnd
    \/ AttestRenderFails
    \/ \E n \in 0..MaxWritten : AttestInterrupted(n)
    \/ AttestAbandoned

SpecAbort == Init /\ [][NextAbort]_vars

(***************************************************************************)
(* runEngine3Repro called on its own                                       *)
(***************************************************************************)
\* manifest.dataset for a CSV of the given number of rows and its chunk index
Dataset(rows) ==
    Obj(<< <<"dataset_id", hashJSON(Obj(<< <<"filename", JStr("input.csv")>> >>))>>,
           <<"input_file", JStr("input.csv")>>,
           <<"input_bytes", JNum(rows)>>,
           <<"input_digest_sha256", hashHex(Raw(<<rows>>))>>,
           <<"e2_chunk_index_hash_sha256", hashHex(Utf8(<<JNum(rows)>>))>>,
           <<"merkle_root", buildMerkleRoot(E2Leaves(rows))>>,
           <<"rows", JNum(rows)>>,
           <<"chunk_rows", JNum(5000)>>,
           <<"leaf_count", JNum(Len(E2Leaves(rows)))>> >>)

\* the fields cmp is called on, in the order of the calls
Compared ==
    <<"merkle_root", "input_digest_sha256", "e2_chunk_index_hash_sha256", "rows",
      "chunk_rows", "leaf_count">>

\* delta after the calls of cmp from field j on
RECURSIVE Delta(_, _, _)
Delta(left, right, j) ==
    IF j > Len(Compared) THEN <<>>
    ELSE (IF Get(left, Compared[j]) # Get(right, Compared[j])
          THEN << <<Compared[j], Obj(<< <<"left", Get(left, Compared[j])>>,
                                        <<"right", Get(right, Compared[j])>> >>)>> >>
          ELSE <<>>)
         \o Delta(left, right, j + 1)

\* the ReplayVerdict object: delta is undefined on MATCH
ReplayVerdict(left, right) ==
    LET verdictValue ==
            IF \A j \in 1..Len(Compared) : Get(left, Compared[j]) = Get(right, Compared[j])
            THEN "MATCH" ELSE "MISMATCH"
    IN  Obj(<< <<"engine", JStr("e3.replay_verdict")>>,
               <<"created_at", [k |-> "date", v |-> pl.clock]>>,
               <<"run_id", [k |-> "uuid", v |-> pl.run]>>,
               <<"against_run_id", [k |-> "uuid", v |-> 0]>>,
               <<"verdict", JStr(verdictValue)>>,
               <<"compared", Obj([j \in 1..Len(Compared) |->
                    <<Compared[j],
                      JBool(Get(left, Compared[j]) = Get(right, Compared[j]))>>])>>,
               <<"delta", IF verdictValue = "MISMATCH" THEN Obj(Delta(left, right, 1))
                          ELSE Undefined>> >>)

\* runEngine3Repro is called for run 1 on a CSV of the given rows; other is
\* the row count behind the manifest of run 0 in the runs directory, None
\* when there is no such run; compare says whether compare_against_run_id
\* names run 0; e2_receipt_hash is the caller's, undefined when left out
ReproCall(rows, cpus, other, compare, e2_receipt_hash) ==
    /\ res = None
    /\ pl = PlIdle
    /\ pl' = [PlIdle EXCEPT !.run = 1, !.rows = rows, !.cpus = cpus]
    /\ res' = [pc |-> "manifest", other |-> other, compare |-> compare,
               e2_receipt_hash |-> e2_receipt_hash, manifest |-> None,
               verdict |-> None, receipt |-> None, error |-> "none"]
    /\ UNCHANGED <<file, keyDir, outFile, att, ver, runs, mk, tam, tl, ks>>

\* lines 305-341: the manifest is built and written
ReproManifest ==
    /\ res # None /\ res.pc = "manifest"
    /\ res' = [res EXCEPT !.pc = IF res.compare THEN "verdict" ELSE "receipt",
                          !.manifest = Obj(<< <<"engine", JStr("e3.repro_manifest")>>,
                                              <<"created_at", [k |-> "date", v |-> pl.clock]>>,
                                              <<"run_id", [k |-> "uuid", v |-> pl.run]>>,
                                              <<"dataset", Dataset(pl.rows)>>,
                                              <<"environment", Environment>> >>)]
    /\ UNCHANGED <<file, keyDir, outFile, att, ver, runs, mk, tam, tl, ks, pl>>

\* lines 347-387: the other manifest is read (ENOENT when the run is not
\* there), the verdict built and written
ReproVerdict ==
    /\ res # None /\ res.pc = "verdict"
    /\ res' = IF res.other = None
              THEN [res EXCEPT !.pc = "threw", !.error = "ENOENT"]
              ELSE [res EXCEPT !.pc = "receipt",
                               !.verdict = ReplayVerdict(Get(res.manifest, "dataset"),
                                                         Dataset(res.other.rows))]
    /\ UNCHANGED <<file, keyDir, outFile, att, ver, runs, mk, tam, tl, ks, pl>>

\* lines 389-416: the argument of createReceipt; a hash that throws leaves
\* its error in the place of the member
ReproReceiptData ==
    LET manifest_hash == HashOutcome(res.manifest)
        verdict_hash == IF res.verdict # None THEN HashOutcome(res.verdict)
                        ELSE [hash |-> JNull]
    IN  IF "error" \in DOMAIN manifest_hash THEN manifest_hash
        ELSE IF "error" \in DOMAIN verdict_hash THEN verdict_hash
        ELSE [data |->
                ReceiptData("e3.repro",
                   << <<"input_csv", JStr("input.csv")>>,
                      <<"e2_chunk_index", JStr("e2.chunk_index.json")>>,
                      <<"e2_receipt_hash", IF res.e2_receipt_hash = Undefined THEN JNull
                                           ELSE res.e2_receipt_hash>>,
                      <<"compare_against_run_id",
                        IF res.compare THEN [k |-> "uuid", v |-> 0] ELSE JNull>> >>,
                   << <<"file_digest", JStr("sha256")>>,
                      <<"index_digest", JStr("sha256")>> >>,
                   << <<"manifest", JStr("e3.run_manifest.json")>>,
                      <<"manifest_hash", manifest_hash.hash>>,
                      <<"verdict", IF res.verdict # None THEN JStr("e3.replay_verdict.json")
                                   ELSE JNull>>,
                      <<"verdict_hash", verdict_hash.hash>> >>)
                \o << <<"prev_receipt_hash", res.e2_receipt_hash>> >>]

\* lines 389-433: createReceipt, the receipt file, the transparency log
ReproReceipt ==
    /\ res # None /\ res.pc = "receipt"
    /\ LET args == ReproReceiptData
           base == IF "data" \in DOMAIN args
                   THEN HashOutcome(Obj(<< <<"receipt_version", JStr("1")>> >> \o args.data))
                   ELSE args
       IN  IF "error" \in DOMAIN base
           THEN /\ res' = [res EXCEPT !.pc = "threw", !.error = base.error]
                /\ tl' = tl
           ELSE LET receipt == createReceipt(args.data)
                IN  /\ res' = [res EXCEPT !.pc = "done", !.receipt = receipt]
                    /\ tl' = [tl EXCEPT !.log = appendTransparencyLog(tl.log,
                                                   Get(receipt, "receipt_hash"),
                                                   Get(receipt, "created_at")),
                                        !.before = tl.log,
                                        !.started = tl.started + 1]
    /\ UNCHANGED <<file, keyDir, outFile, att, ver, runs, mk, tam, ks, pl>>

NextRepro ==
    \/ \E rows \in 0..MaxRows, cpus \in 1..MaxCpus,
          other \in {None} \cup {[rows |-> n] : n \in 0..MaxRows},
          compare \in BOOLEAN, e2_receipt_hash \in {Undefined} \cup ReceiptPool :
          ReproCall(rows, cpus, other, compare, e2_receipt_hash)
    \/ ReproManifest
    \/ ReproVerdict
    \/ ReproReceipt

SpecRepro == InitMerkle /\ [][NextRepro]_vars

\* one pipeline run
NextPipeline ==
    \/ \E rows \in 0..MaxRows, cpus \in 1..MaxCpus : PlStart(rows, cpus)
    \/ RunE2
    \/ RunE3
    \/ RunE4
    \/ \E scan \in Scans : RunE5(scan)
    \/ RunE6
    \/ RunE8
    \/ RunE7
    \/ RunE9

SpecPipeline == InitMerkle /\ [][NextPipeline]_vars

(***************************************************************************)
(* Properties                                                              *)
(***************************************************************************)
Finished == {j \in 1..Len(runs) : runs[j].exit = 0}

\* a `verify` has printed a result for the bundle of run res.run
Verified == res # None /\ "ok" \in DOMAIN res /\ res.run \in Finished

CheckNames == {"file_blake2b_match", "file_sha512_match", "merkle_root_match",
               "leaf_count_match", "signed_message_sha512_match", "signature_valid"}

CeilDiv(n, c) == (n + c - 1) \div c

ClaimsOf(j) == Get(runs[j].attestation, "claims")
ProofsOf(j) == Get(runs[j].attestation, "proofs")

\* C1: bundle round trip.  Verifying the bundle an attest run wrote, together
\* with the artifact that run read, returns ok with all six checks true,
\* for every artifact, chunk size and read segmentation.
C1_RoundTrip ==
    (Verified /\ res.file = runs[res.run].file)
        => /\ res.ok
           /\ DOMAIN res.checks = CheckNames
           /\ \A name \in CheckNames : res.checks[name]
           /\ res.exit = 0

C1_Witness ==
    /\ Verified /\ res.file = runs[res.run].file
    /\ res.ok
    /\ Len(res.leaf_hexes) >= 2
    /\ Len(res.file) % runs[res.run].chunkSize # 0

OneByteFlipped(x, y) ==
    /\ Len(x) = Len(y)
    /\ Cardinality({i \in 1..Len(x) : x[i] # y[i]}) = 1

\* C2: wrong-artifact detection.  Verifying a bundle against any other byte
\* sequence returns ok = false; when the other sequence is the artifact with
\* one byte flipped, both file digests and the Merkle root mismatch.
C2_WrongArtifact ==
    (Verified /\ res.file # runs[res.run].file)
        => /\ ~res.ok
           /\ res.exit = 3
           /\ OneByteFlipped(runs[res.run].file, res.file)
                => /\ ~res.checks.file_blake2b_match
                   /\ ~res.checks.file_sha512_match
                   /\ ~res.checks.merkle_root_match

C2_Witness ==
    /\ Verified
    /\ OneByteFlipped(runs[res.run].file, res.file)
    /\ Len(res.leaf_hexes) >= 2
    /\ ~res.ok
    /\ ~res.checks.file_blake2b_match
    /\ ~res.checks.file_sha512_match
    /\ ~res.checks.merkle_root_match

\* C3: inclusion-proof round trip.  For every non-empty leaf list and every
\* valid index, the proof merkleProof builds verifies against the root
\* merkleRootFromLeafHex computes, also on the duplicated last node of an odd
\* level.
C3_ProofRoundTrip ==
    (mk.proof # None /\ IsProof(mk.proof))
        => /\ mk.proof.index \in 0..(Len(mk.leaves) - 1)
           /\ verifyProof(merkleRootFromLeafHex(mk.leaves).root_hex, mk.proof)

C3_Witness ==
    /\ Len(mk.leaves) = 3
    /\ mk.proof # None /\ IsProof(mk.proof)
    /\ mk.proof.index = 2
    /\ FromHex(mk.proof.siblings_hex[1]) = FromHex(mk.proof.leaf_hex)
    /\ verifyProof(merkleRootFromLeafHex(mk.leaves).root_hex, mk.proof)

TamperedAt == {j \in 1..Len(mk.proof.siblings_hex) :
                 mk.tampered.siblings_hex[j] # mk.proof.siblings_hex[j]}

\* C4 as stated: a proof in which one sibling string is replaced by any
\* different string is rejected.
C4_AnyOtherString ==
    mk.tampered # None
        => ~verifyProof(merkleRootFromLeafHex(mk.leaves).root_hex, mk.tampered)

\* C4: tampered proofs are rejected.  For every leaf list with at least two
\* leaves and every valid index, a proof in which one sibling is replaced by
\* a string that decodes to different bytes does not verify.
C4_TamperedRejected ==
    (mk.tampered # None
     /\ \E j \in TamperedAt :
          FromHex(mk.tampered.siblings_hex[j]) # FromHex(mk.proof.siblings_hex[j]))
        => /\ Len(mk.leaves) >= 2
           /\ ~verifyProof(merkleRootFromLeafHex(mk.leaves).root_hex, mk.tampered)

C4_Witness ==
    /\ mk.tampered # None
    /\ Len(mk.leaves) = 3
    /\ mk.proof.index = 2
    /\ FromHex(mk.tampered.siblings_hex[1]) # FromHex(mk.proof.siblings_hex[1])
    /\ ~verifyProof(merkleRootFromLeafHex(mk.leaves).root_hex, mk.tampered)

\* C5: leaf count.  Every fingerprint has leaf_count = chunks_count =
\* ceil(len / c), which is 0 for the empty artifact and 1 when c > len > 0,
\* and leaf_count * c >= bytes > (leaf_count - 1) * c for a non-empty one.
C5_LeafCount ==
    \A j \in 1..Len(runs) :
        LET core == runs[j].core
            n == Get(core.merkle, "leaf_count").v
            c == runs[j].chunkSize
            len == Len(runs[j].file)
        IN  /\ core.bytes = len
            /\ n = core.chunks_count
            /\ n = Len(core.leaf_hexes)
            /\ n = CeilDiv(len, c)
            /\ len = 0 => n = 0
            /\ len > 0 => (n * c >= len /\ len > (n - 1) * c)
            /\ (c > len /\ len > 0) => n = 1

C5_Witness ==
    \E j \in 1..Len(runs) :
        /\ Len(runs[j].file) = 3
        /\ runs[j].chunkSize = 2
        /\ runs[j].core.chunks_count = 2

\* the i-th chunk of x for chunk size c, i counted from 0
ChunkOf(x, c, i) == SubSeq(x, i * c + 1, Min((i + 1) * c, Len(x)))

InOrder(leafHexes, x, c) ==
    \A i \in 0..(Len(leafHexes) - 1) : leafHexes[i + 1] = leafHash(ChunkOf(x, c, i))

\* C6: leaf order is byte-stream order.  However the stream is cut into
\* 'data' events, leaf i is the hash of bytes [i*c, min((i+1)*c, len)), and
\* after each event the accumulator holds fewer than c bytes: the bytes read
\* that no leaf covers yet.  The same holds in the verifier.
C6_LeafOrder ==
    /\ att.pc = "stream"
         => /\ Len(att.buf) < att.chunkSize
            /\ att.buf = SubSeq(file, Len(att.leafHexes) * att.chunkSize + 1, att.pos)
            /\ InOrder(att.leafHexes, file, att.chunkSize)
    /\ ver.pc = "stream"
         => /\ Len(ver.buf) < ver.chunkSize
            /\ ver.buf = SubSeq(file, Len(ver.leafHexes) * ver.chunkSize + 1, ver.pos)
            /\ InOrder(ver.leafHexes, file, ver.chunkSize)
    /\ \A j \in 1..Len(runs) :
         /\ InOrder(runs[j].core.leaf_hexes, runs[j].file, runs[j].chunkSize)
         /\ Len(runs[j].core.leaf_hexes) = CeilDiv(Len(runs[j].file), runs[j].chunkSize)
    /\ Verified
         => InOrder(res.leaf_hexes, res.file, runs[res.run].chunkSize)

C6_Witness ==
    /\ att.pc = "stream"
    /\ att.chunkSize = 1
    /\ att.lastRead = 3
    /\ Len(att.leafHexes) = 3
    /\ att.leafHexes[1] # att.leafHexes[3]

SameInputs(i, j) ==
    /\ i \in Finished /\ j \in Finished /\ i < j
    /\ runs[i].file = runs[j].file
    /\ runs[i].chunkSize = runs[j].chunkSize
    /\ runs[i].kp = runs[j].kp

\* C7 as stated: two runs over the same artifact with the same key pair and
\* chunk size produce identical claims, proofs.sampled and proofs.merkle_root.
C7_IdenticalClaims ==
    \A i, j \in 1..Len(runs) :
        SameInputs(i, j)
            => /\ ClaimsOf(i) = ClaimsOf(j)
               /\ Get(ProofsOf(i), "sampled") = Get(ProofsOf(j), "sampled")
               /\ Get(ProofsOf(i), "merkle_root") = Get(ProofsOf(j), "merkle_root")

\* C7: determinism of attestation.  Two runs over the same artifact with the
\* same key pair and chunk size produce identical claims.file_digests,
\* claims.merkle, proofs.sampled and proofs.merkle_root; claims.manifest_sha512
\* differs between them whenever their manifests (run_id, created_at) differ.
C7_Determinism ==
    \A i, j \in 1..Len(runs) :
        SameInputs(i, j)
            => /\ Get(ClaimsOf(i), "schema") = Get(ClaimsOf(j), "schema")
               /\ Get(ClaimsOf(i), "file_digests") = Get(ClaimsOf(j), "file_digests")
               /\ Get(ClaimsOf(i), "merkle") = Get(ClaimsOf(j), "merkle")
               /\ Get(ProofsOf(i), "sampled") = Get(ProofsOf(j), "sampled")
               /\ Get(ProofsOf(i), "merkle_root") = Get(ProofsOf(j), "merkle_root")
               /\ Get(runs[i].attestation, "manifest") # Get(runs[j].attestation, "manifest")
                    => Get(ClaimsOf(i), "manifest_sha512") # Get(ClaimsOf(j), "manifest_sha512")

C7_Witness ==
    \E i, j \in 1..Len(runs) :
        /\ SameInputs(i, j)
        /\ Len(runs[i].file) = 3 /\ runs[i].chunkSize = 1
        /\ Get(ProofsOf(i), "sampled") = Get(ProofsOf(j), "sampled")
        /\ Len(Get(ProofsOf(i), "sampled").v) = 3
        /\ Get(ClaimsOf(i), "manifest_sha512") # Get(ClaimsOf(j), "manifest_sha512")

\* C8: manifest binding.  In every attestation written by attest,
\* claims.manifest_sha512 is the SHA-512 of the canonical JSON (keys sorted,
\* no whitespace) of the manifest of the same attestation.
C8_ManifestBinding ==
    \A j \in Finished :
        Get(ClaimsOf(j), "manifest_sha512")
            = sha512Hex(Utf8(stableStringify(Get(runs[j].attestation, "manifest"))))

AsSet(seq) == {seq[j] : j \in 1..Len(seq)}

ExpectedSample(n) ==
    IF n = 0 THEN {} ELSE {0, n \div 4, n \div 2, (3 * n) \div 4, n - 1}

\* C9: deterministic sampling.  For n leaves the sampled indices are the
\* set {0, n/4, n/2, 3n/4, n-1} (floored, without duplicates, empty for
\* n = 0, {0,25,50,75,99} for n = 100), every index lies in [0, n), and every
\* sampled proof is for its index and has verifies = true.
C9_Sampling ==
    mk.sampled # None
        => LET n == Len(mk.leaves)
               idx == mk.sampled.indices
               proofs == mk.sampled.proofs
           IN  /\ AsSet(idx) = ExpectedSample(n)
               /\ Cardinality(AsSet(idx)) = Len(idx)
               /\ \A i \in AsSet(idx) : i >= 0 /\ i < n
               /\ n = 100 => AsSet(idx) = {0, 25, 50, 75, 99}
               /\ Len(proofs) = Len(idx)
               /\ \A j \in 1..Len(proofs) :
                    /\ IsProof(proofs[j])
                    /\ proofs[j].index = idx[j]
                    /\ proofs[j].verifies

C9_Witness ==
    /\ mk.sampled # None
    /\ Len(mk.leaves) = 100
    /\ AsSet(mk.sampled.indices) = {0, 25, 50, 75, 99}
    /\ \A j \in 1..Len(mk.sampled.proofs) : mk.sampled.proofs[j].verifies

\* C10: empty input.  Attesting the zero-byte artifact succeeds with
\* leaf_count = 0, the sentinel root BLAKE2b-512("resethiq:empty") and no
\* sampled proof; verifying that bundle against the zero-byte artifact
\* returns ok.
C10_EmptyInput ==
    /\ \A j \in 1..Len(runs) :
         runs[j].file = <<>>
            => /\ runs[j].exit = 0
               /\ runs[j].core.leaf_hexes = <<>>
               /\ Get(ClaimsOf(j), "merkle")
                    = Obj(<< <<"algorithm", JStr("blake2b512")>>,
                             <<"root", ToHex(h(EmptyLabel))>>,
                             <<"leaf_count", JNum(0)>>,
                             <<"chunk_size", JNum(runs[j].chunkSize)>> >>)
               /\ Get(ProofsOf(j), "merkle_root") = ToHex(h(EmptyLabel))
               /\ Get(ProofsOf(j), "sampled") = Arr(<<>>)
    /\ (Verified /\ res.file = <<>> /\ runs[res.run].file = <<>>)
         => res.ok /\ res.actual.leaf_count = 0

C10_Witness ==
    /\ Verified
    /\ res.file = <<>> /\ runs[res.run].file = <<>>
    /\ res.ok
    /\ res.actual.merkle_root = ToHex(h(EmptyLabel))

\* a `verify` of the well-formed command line has exited
RanOnBundle == res # None /\ ("argv" \in DOMAIN res => res.argv = Argv)

Completed == res # None /\ "ok" \in DOMAIN res

SignatureEdited == tam # None /\ tam.path = <<"signature", "signature_b64">>
ClaimsEdited == tam # None /\ tam.path[1] = "claims"

Detected ==
    /\ Completed
    /\ ~res.checks.signature_valid
    /\ ~res.ok
    /\ res.exit = 3

ChunkSizeValid(a) ==
    LET n == Number(GetIn(a, <<"claims", "merkle", "chunk_size">>))
    IN  n # NaN /\ n.v > 0

HasFlag(argv, name) == \E i \in 1..Len(argv) : argv[i] = name

\* C20: exit codes of `verify`.  The command exits 0 exactly when the verifier
\* returned ok = true, 3 exactly when it returned a result with a false check,
\* 2 when an error was raised (unreadable bundle or file, unparsable bundle,
\* invalid chunk_size), and 1 when --bundle or --file is missing.
C20_ExitCodes ==
    res # None
        => /\ res.exit \in {0, 1, 2, 3}
           /\ Completed => res.ok = (\A name \in CheckNames : res.checks[name])
           /\ res.exit = 0 <=> (Completed /\ res.ok)
           /\ res.exit = 3 <=> (Completed /\ \E name \in CheckNames : ~res.checks[name])
           /\ "error" \in DOMAIN res => res.exit = 2
           /\ res.exit = 2 => "error" \in DOMAIN res
           /\ ("argv" \in DOMAIN res
               /\ (~HasFlag(res.argv, "--bundle") \/ ~HasFlag(res.argv, "--file")))
                => res.exit = 1

C20_Witness ==
    /\ res # None
    /\ res.exit = 2
    /\ res.error = "Invalid chunk_size in bundle"
    /\ tam # None /\ tam.val = JNum(0)

\* the fields of the lines of a log text
Entries(text) ==
    LET lines == LinesOf(text)
    IN  [i \in 1..Len(lines) |->
            LET parts == Split(lines[i], TAB)
            IN  [timestamp |-> PartString(parts[1]),
                 receipt_hash |-> PartString(parts[2]),
                 prev_hash |-> PartString(parts[3]),
                 entry_hash |-> PartString(parts[4])]]

\* forward recomputation from GENESIS: the lines at which it finds a break
Breaks(text) ==
    LET e == Entries(text)
    IN  {i \in 1..Len(e) :
           \/ e[i].prev_hash # (IF i = 1 THEN GENESIS ELSE e[i - 1].entry_hash)
           \/ e[i].entry_hash # EntryHash(e[i].prev_hash, e[i].receipt_hash, e[i].timestamp)}

InFlight == {p \in Procs : tl.calls[p].pc # "idle"}

\* C12: transparency-log chain under sequential appends.  While no two calls
\* have overlapped, every call has added exactly one line after the lines that
\* were there, the first line has prev_hash = GENESIS, every later line has
\* the entry_hash of the line before it as prev_hash, and every entry_hash is
\* the hash of (prev_hash, receipt_hash, timestamp).
C12_SequentialChain ==
    (~tl.overlapped /\ tl.log # None)
        => /\ Len(LinesOf(tl.log)) = tl.started - Cardinality(InFlight)
           /\ tl.log = AppendFile(tl.before, SubSeq(tl.log, Len(tl.log) - 7, Len(tl.log)))
           /\ Len(LinesOf(tl.log)) = Len(LinesOf(AppendFile(tl.before, <<>>))) + 1
           /\ Breaks(tl.log) = {}
           /\ Entries(tl.log)[1].prev_hash = GENESIS

C12_Witness ==
    /\ ~tl.overlapped /\ tl.log # None
    /\ Len(LinesOf(tl.log)) = 3
    /\ Entries(tl.log)[3].prev_hash = Entries(tl.log)[2].entry_hash
    /\ Entries(tl.log)[2].receipt_hash # Entries(tl.log)[3].receipt_hash

\* C13: concurrent appenders are serialized.  For every interleaving of the
\* calls the log is one linear chain: every line after the first has the
\* entry_hash of the line before it as prev_hash, and no two lines have the
\* same prev_hash.
C13_Serialized ==
    tl.log # None
        => LET e == Entries(tl.log)
           IN  /\ \A i \in 2..Len(e) : e[i].prev_hash = e[i - 1].entry_hash
               /\ \A i, j \in 1..Len(e) : i # j => e[i].prev_hash # e[j].prev_hash

\* a copy of a log that sequential calls wrote has been edited
Edited == tl.tampered # None /\ ~tl.overlapped

\* C14 as stated: after removing one or more lines, swapping two lines or
\* replacing any line by another, forward recomputation finds a break.
C14_AnyEdit ==
    Edited => Breaks(tl.tampered.text) # {}

\* an edit that leaves a line behind a line it removed, swaps two lines, or
\* replaces a line that is not the last
Inner ==
    LET n == Len(LinesOf(tl.log))
    IN  \/ tl.tampered.kind = "reorder"
        \/ tl.tampered.kind = "truncate"
              /\ \E i \in tl.tampered.at, j \in (1..n) \ tl.tampered.at : i < j
        \/ tl.tampered.kind = "replace" /\ n \notin tl.tampered.at

\* C14: transparency-log tamper evidence.  For a log of at least two lines,
\* removing lines of which one is followed by a kept line, swapping two lines,
\* or replacing any line but the last by another line yields a log on which
\* forward recomputation from GENESIS finds a break, at the edited line or
\* after it.
C14_TamperEvident ==
    (Edited /\ Inner)
        => /\ Len(LinesOf(tl.log)) >= 2
           /\ \E i \in Breaks(tl.tampered.text) :
                 \E j \in tl.tampered.at : i >= j - Cardinality(tl.tampered.at)

C14_Witness ==
    /\ Edited
    /\ tl.tampered.kind = "replace" /\ tl.tampered.at = {1}
    /\ Len(LinesOf(tl.log)) = 3
    /\ Breaks(tl.tampered.text) = {2}

\* C15: receipt chain.  In a pipeline run the receipt of every engine step
\* after the first carries the receipt_hash of the step before it as
\* prev_receipt_hash.
C15_ReceiptChain ==
    \A n \in 2..Len(pl.receipts) :
        Get(pl.receipts[n], "prev_receipt_hash") = Get(pl.receipts[n - 1], "receipt_hash")

\* delete x[key]
WithoutKey(x, key) == Obj(SelectSeq(x.v, LAMBDA m : m[1] # key))

SelfHashed(r) == Get(r, "receipt_hash") = hashJSON(WithoutKey(r, "receipt_hash"))

\* C16: receipt self-hash.  Every receipt an engine got from createReceipt
\* has as receipt_hash the SHA-256 of the canonical JSON of its other fields,
\* and so has the value parsed back from the receipt file written with
\* JSON.stringify.
C16_SelfHash ==
    \A n \in 1..Len(pl.receipts) :
        /\ SelfHashed(pl.receipts[n])
        /\ SelfHashed(JSONparse(pl.files[n]))
        /\ Get(JSONparse(pl.files[n]), "receipt_hash") = Get(pl.receipts[n], "receipt_hash")

C16_Witness ==
    /\ Len(pl.receipts) >= 2
    /\ Get(pl.receipts[2], "prev_receipt_hash") = Get(pl.receipts[1], "receipt_hash")
    /\ GetIn(JSONparse(pl.files[2]), <<"outputs", "verdict">>) = JNull
    /\ SelfHashed(JSONparse(pl.files[2]))

\* C17: key files are never rewritten.  Whatever state the key directory is
\* in, a call of loadOrCreateEd25519Keypair that no other call overlaps
\* leaves every key file it found as it was, and when it found both files
\* readable it returns their contents.
C17_NeverRewritten ==
    ~ks.overlapped =>
        \A p \in Procs :
            LET c == ks.calls[p]
            IN  c.pc # "idle" =>
                  /\ \A half \in Halves : c.at[half] # None => keyDir[half] = c.at[half]
                  /\ (c.pc = "done" /\ c.at = [pub |-> InstalledPub, priv |-> InstalledPriv])
                        => c.ret = [publicKeyPem |-> InstalledPub,
                                    privateKeyPem |-> InstalledPriv]

\* C18: key-store cold-start race.  When the calls started on an empty key
\* directory have returned, in whatever order their steps ran, they returned
\* the same pair and the two files on disk are the halves of that pair.
C18_ColdStartExclusive ==
    (ks.before = [pub |-> None, priv |-> None]
        /\ \A p \in Procs : ~Running(ks.calls[p]))
    => \A p, q \in Procs :
          ks.calls[p].pc = "done" /\ ks.calls[q].pc = "done"
          => /\ ks.calls[p].ret = ks.calls[q].ret
             /\ keyDir = [pub |-> ks.calls[p].ret.publicKeyPem,
                          priv |-> ks.calls[p].ret.privateKeyPem]

\* text is the beginning of the bundle the run made
FromRun(text, run) ==
    /\ text # None
    /\ run.attestation # None
    /\ LET whole == JSONstringifyIndent(run.attestation, 0)
       IN  Len(text) <= Len(whole) /\ SubSeq(whole, 1, Len(text)) = text

\* C19: no partial bundle.  After an attest run that failed or was abandoned
\* at any step, out/attestation.json holds nothing that run wrote: a bundle
\* is visible only from runs that exit 0.
C19_NoPartialBundle ==
    \A n \in 1..Len(runs) : runs[n].exit # 0 => ~FromRun(outFile, runs[n])

\* C21: chunk-size validation.  hash and attest end with exit code 1, before
\* reading the artifact, for every --chunk that is not a positive integer,
\* and no leaf is ever computed with a chunk size that is not an integer.
C21_ChunkValidated ==
    /\ (res # None /\ ~(IsInteger(NumberOfArg(res.arg)) /\ Twice(NumberOfArg(res.arg)) > 0))
          => res.exit = 1 /\ ~res.running /\ att.pc = "idle"
    /\ (att.pc # "idle" /\ att.leafHexes # <<>>) => IsInteger(att.chunkSize)

\* C22: proof-construction errors.  merkleProof raises "Cannot build proof
\* for empty tree" for the empty leaf list whatever the index, raises "Proof
\* index out of range" for an index below 0 or not below the number of
\* leaves, and returns a proof in no such case; the root of the empty list
\* is still the sentinel.
C22_ProofErrors ==
    mk.proof # None
        => /\ Len(mk.leaves) = 0
                => /\ mk.proof = [error |-> "Cannot build proof for empty tree"]
                   /\ merkleRootFromLeafHex(mk.leaves)
                         = [root_hex |-> ToHex(h(EmptyLabel)), leaf_count |-> 0]
           /\ (Len(mk.leaves) > 0 /\ (mk.asked < 0 \/ mk.asked >= Len(mk.leaves)))
                => mk.proof = [error |-> "Proof index out of range"]
           /\ IsProof(mk.proof) => mk.asked \in 0..(Len(mk.leaves) - 1)

C22_Witness ==
    /\ mk.proof # None /\ ~IsProof(mk.proof)
    /\ mk.leaves = <<>>
    /\ mk.asked = 0

\* C25: proof soundness with respect to leaf position.  For a non-empty
\* leaf list L with root R, verifyProof(R, p) is true only if p.index is an
\* index of L and p.leaf_hex is L[p.index]; no proof with an empty sibling
\* list is accepted for more than one leaf.
C25_PositionSound ==
    (mk.forged # None /\ Len(mk.leaves) > 0
        /\ verifyProof(merkleRootFromLeafHex(mk.leaves).root_hex, mk.forged))
    => /\ mk.forged.index \in 0..(Len(mk.leaves) - 1)
       /\ mk.forged.leaf_hex = mk.leaves[mk.forged.index + 1]
       /\ Len(mk.leaves) > 1 => mk.forged.siblings_hex # <<>>

RECURSIVE Holds(_, _)
\* some value of the given kinds occurs in x
Holds(x, kinds) ==
    \/ x.k \in kinds
    \/ x.k = "arr" /\ \E j \in 1..Len(x.v) : Holds(x.v[j], kinds)
    \/ x.k = "obj" /\ \E j \in 1..Len(x.v) : Holds(x.v[j][2], kinds)

\* C23: canonicalization error modes.  hashJSON ends with an error, and
\* gives no hash, for every input that holds a non-finite number (NaN,
\* Infinity, -Infinity) and for every cyclic input.
C23_CanonErrors ==
    (res.hashed # None /\ Holds(res.value, {"nan", "inf", "-inf", "ref"}))
        => "error" \in DOMAIN res.hashed

\* C24: no error is swallowed.  A call of the key store that found a key
\* file it cannot read ends with an error: it never goes on to generate a
\* pair as if the directory were empty.
C24_NoSwallow ==
    \A p \in Procs :
        LET c == ks.calls[p]
        IN  (c.pc # "idle"
             /\ \E half \in Halves : c.at[half] # None /\ c.at[half].k = "noaccess")
            => c.pc \in {"read", "threw"} /\ c.kp = None

\* C27: E2 root and E8 proofs agree.  For every leaf list the root of
\* buildMerkleRoot is the root of merkleRootFromLeafHex, the empty list
\* included, and every proof the proof sampler builds verifies against the
\* root of buildMerkleRoot.
C27_RootsAgree ==
    mk.e8 # None
        => /\ mk.e8.merkle_root = merkleRootFromLeafHex(mk.leaves).root_hex
           /\ \A j \in 1..Len(mk.e8.sampled) : mk.e8.sampled[j].verifies

\* the proofs of the E8 output that do not verify
FailedProofs ==
    {j \in 1..Len(Get(pl.e8, "sampled").v) :
        Get(Get(pl.e8, "sampled").v[j], "verifies") # JBool(TRUE)}

\* C28: trust verdict reflects the proof results.  In a pipeline run, which
\* replays nothing, runEngine7Trust gives severity CRITICAL and verdict FAIL
\* only if a proof sampled by E8 does not verify; when every sampled proof
\* verifies, the verdict is not FAIL and the merkle_proofs component is 100.
C28_VerdictReflectsProofs ==
    pl.trust # None
        => /\ (pl.trust.severity = "CRITICAL" \/ pl.trust.verdict = "FAIL")
                  => FailedProofs # {}
           /\ FailedProofs = {}
                  => pl.trust.verdict # "FAIL" /\ pl.trust.components.merkle_proofs = 100

\* LOW < MED < HIGH < CRITICAL
SeverityRank(severity) ==
    CASE severity = "LOW" -> 0 [] severity = "MED" -> 1
      [] severity = "HIGH" -> 2 [] severity = "CRITICAL" -> 3

\* the result for the same reports with another dataset risk
TrustAt(dataset_risk) == Trust(JNull, 0, dataset_risk, pl.pii, pl.e8)

\* C30: trust score is monotone in policy risk.  Of the risks E5 emits, a
\* higher one gets a strictly lower policy component (HIGH < MEDIUM < LOW)
\* and, the other reports equal, a severity that is not lower; a
\* MEDIUM-risk dataset never gets the policy component and the severity of
\* a LOW-risk one.
C30_PolicyMonotone ==
    pl.trust # None
        => /\ pl.risk = "MEDIUM"
                  => /\ pl.trust.components.policy < TrustAt("LOW").components.policy
                     /\ pl.trust.components.policy > TrustAt("HIGH").components.policy
                     /\ SeverityRank(pl.trust.severity) >= SeverityRank(TrustAt("LOW").severity)
                     /\ ~(/\ pl.trust.components.policy = TrustAt("LOW").components.policy
                          /\ pl.trust.severity = TrustAt("LOW").severity)
           /\ pl.risk = "HIGH"
                  => /\ pl.trust.components.policy < TrustAt("MEDIUM").components.policy
                     /\ SeverityRank(pl.trust.severity) >= SeverityRank(TrustAt("MEDIUM").severity)

\* C29: Engine 3 completes on every outcome.  Without a run to compare
\* against, and with one whose manifest is there, whatever the verdict and
\* with or without e2_receipt_hash, runEngine3Repro does not throw, and when
\* it is over it has returned a receipt and appended one entry to the log.
C29_E3Completes ==
    res # None
        => /\ res.pc = "threw" => (res.compare /\ res.other = None)
           /\ res.pc = "done" => (res.receipt # None /\ tl.started = 1 /\ tl.log # None)

ManifestEdited == tam # None /\ tam.path[1] = "manifest"

\* C26: manifest tampering is detected by the verifier.  After a value of
\* the manifest of a bundle attest wrote (run id, timestamp, subject
\* filename or byte count, environment) is changed, claims and signature
\* untouched, verifyBundle on that bundle returns ok = false.
C26_ManifestTamperDetected ==
    (Completed /\ ManifestEdited) => ~res.ok

====
